---- MODULE Spec2Model ----
(***************************************************************************)
(* A model of smart-dns: the JSON zone loader (zone.ZoneFile.ToIndex), the *)
(* zone store (zone.Store), the response caches (cache.RRCaches), the      *)
(* query engine (dnsserver.Resolver.ServeDNS / lookup / findRRSet) and the *)
(* reload coordinator (zoneReloader, watch.WatchDir).                      *)
(*                                                                         *)
(* Names are sequences of one-character strings, so that strings.HasSuffix *)
(* and strings.ToLower are computed character by character, as in the Go   *)
(* code.  "d.c." stands for the README zone deneme.com.                    *)
(***************************************************************************)
EXTENDS Integers, Sequences, FiniteSets, TLC

VARIABLES
    store,    \* zone.Store.zones: lowercase zone FQDN -> ZoneIndex
    pos,      \* RRCaches.pos: LRU entries, oldest first
    neg,      \* RRCaches.neg: LRU entries, oldest first
    now,      \* time.Now(), in seconds
    resp,     \* the message last handed to w.WriteMsg (NoMsg: nothing written)
    op,       \* the operation that ran last and its inputs
    putlog,   \* for each positive-cache key, the PutPositive call that wrote it last
    tasks,    \* the timer goroutines started by WatchDir
    zfile,    \* the zone file given to ToIndex
    zres,     \* what ToIndex returned for zfile
    zdir,     \* the .dns files of the zones directory, in sorted path order
    upstream, \* the name servers the iterative resolver talks to
    mu        \* the holders of the caches' posMu and negMu (0: unlocked)

vars == <<store, pos, neg, now, resp, op, putlog, tasks, zfile, zres, zdir, upstream, mu>>

----------------------------------------------------------------------------
(* Calls *)

\* Go evaluates the argument of a call once, before the call: Op applied to the value
\* of arg
Call(Op(_), arg) == CHOOSE v \in {Op(x) : x \in {arg}} : TRUE

----------------------------------------------------------------------------
(* Strings *)

Lower(c) ==
    CASE c = "A" -> "a"
      [] c = "B" -> "b"
      [] c = "C" -> "c"
      [] c = "D" -> "d"
      [] c = "S" -> "s"
      [] c = "W" -> "w"
      [] OTHER -> c

ToLower(s) == [i \in 1..Len(s) |-> Lower(s[i])]

HasSuffix(s, suffix) ==
    /\ Len(suffix) <= Len(s)
    /\ SubSeq(s, Len(s) - Len(suffix) + 1, Len(s)) = suffix

\* dns.Fqdn: the name with a trailing dot
Fqdn(s) ==
    IF s = <<>> THEN <<".">>
    ELSE IF s[Len(s)] = "." THEN s ELSE s \o <<".">>

\* zone.MustFQDN: like Fqdn, except that the empty name stays empty
MustFQDN(name) ==
    IF name = <<>> THEN name
    ELSE IF name[Len(name)] = "." THEN name ELSE name \o <<".">>

RECURSIVE SplitFrom(_, _, _)
SplitFrom(s, i, cur) ==
    IF i > Len(s) THEN (IF cur = <<>> THEN <<>> ELSE <<cur>>)
    ELSE IF s[i] = "." THEN <<cur>> \o SplitFrom(s, i + 1, <<>>)
    ELSE SplitFrom(s, i + 1, Append(cur, s[i]))

\* dns.SplitDomainName: the labels of a name; none for the root
SplitDomainName(s) == IF s = <<".">> \/ s = <<>> THEN <<>> ELSE SplitFrom(s, 1, <<>>)

RECURSIVE Join(_)
\* strings.Join(labels, ".")
Join(labels) ==
    IF labels = <<>> THEN <<>>
    ELSE IF Len(labels) = 1 THEN labels[1]
    ELSE labels[1] \o <<".">> \o Join(Tail(labels))

\* "*." + strings.Join(labels[i+1:], ".") + "."  (i counts from 0, as in Go)
WildcardName(labels, i) ==
    <<"*", ".">> \o Join(SubSeq(labels, i + 2, Len(labels))) \o <<".">>

\* the values of a sequence
Range(s) == {s[i] : i \in 1..Len(s)}

\* m[k] = v in a Go map
MapPut(m, k, v) == (k :> v) @@ m

\* delete(m, k)
MapDelete(m, k) == [x \in DOMAIN m \ {k} |-> m[x]]

EmptyMap == <<>>

----------------------------------------------------------------------------
(* Zone model and loader: internal/zone/loader.go *)

TypeA == "A"
TypeAAAA == "AAAA"
TypeCNAME == "CNAME"
TypeMX == "MX"
TypeNS == "NS"
TypeTXT == "TXT"
TypeSRV == "SRV"

RRTypes == {TypeA, TypeAAAA, TypeCNAME, TypeMX, TypeNS, TypeTXT, TypeSRV}

\* strings.ToUpper on the type token of a record
ToUpperType(t) ==
    CASE t = "a" -> "A"
      [] t = "aaaa" -> "AAAA"
      [] t = "cname" -> "CNAME"
      [] t = "mx" -> "MX"
      [] t = "ns" -> "NS"
      [] t = "txt" -> "TXT"
      [] t = "srv" -> "SRV"
      [] OTHER -> t

\* net.ParseIP(s) with To4() / To16(): the textual addresses the zones use
IPv4Strings == {"203.0.113.10", "203.0.113.20", "203.0.113.30"}
IPv4MappedStrings == {"::ffff:203.0.113.10"}
IPv6Strings == {"2001:db8::10"}

\* ip != nil && ip.To4() != nil
IsValidA(s) == s \in IPv4Strings \cup IPv4MappedStrings

\* ip != nil && ip.To16() != nil && ip.To4() == nil
IsValidAAAA(s) == s \in IPv6Strings

\* ip.To4() of an accepted A value: the 4-byte form, which prints dotted
To4(s) == IF s = "::ffff:203.0.113.10" THEN "203.0.113.10" ELSE s

\* the nil *ZoneIndex
NilSOA == [MName |-> <<>>, RName |-> <<>>, Refresh |-> 0, Retry |-> 0,
           Expire |-> 0, NegativeTTL |-> 0]
NilIndex == [ZoneFQDN |-> <<>>, Serial |-> 0, SOA |-> NilSOA, TTLDef |-> 0,
             ByName |-> EmptyMap]

IsNil(zi) == zi.ZoneFQDN = <<>>

\* ZoneFile.Validate: the error cases (the zone name itself is coerced by ValidatedZone)
Validate(z) ==
    \/ z.Zone = <<>>
    \/ z.SOA.MName = <<>>
    \/ z.SOA.RName = <<>>
    \/ Len(z.NS) = 0

\* ZoneFile.Validate: z.Zone after the trailing dot is appended
ValidatedZone(z) == IF HasSuffix(z.Zone, <<".">>) THEN z.Zone ELSE z.Zone \o <<".">>

NormalizeFQDN(name, zone) ==
    IF name = <<"@">> \/ name = <<>> THEN ToLower(zone)
    ELSE IF HasSuffix(name, <<".">>) THEN ToLower(name)
    ELSE ToLower(name \o <<".">> \o zone)

\* ttl == 0 stands for both a missing ttl and an explicit 0
ensureTTL(ttl, def) == IF ttl = 0 THEN def ELSE ttl

ttlOrDef(ttl, def) == ensureTTL(ttl, def)

ensureName(by, name) == IF name \in DOMAIN by THEN by ELSE MapPut(by, name, EmptyMap)

\* appendRRSet keeping the TTL the RRset was created with
appendRRSetKeepsFirstTTL(m, t, ttl, items) ==
    LET m1 == IF t \in DOMAIN m THEN m
              ELSE MapPut(m, t, [Type |-> t, TTL |-> ttl, RData |-> <<>>])
    IN MapPut(m1, t, [Type |-> t, TTL |-> m1[t].TTL, RData |-> m1[t].RData \o items])

\* appendRRSet, followed by the append of items to the RRset's rdata
appendRRSet(m, t, ttl, items) ==
    LET m1 == IF t \in DOMAIN m THEN m
              ELSE MapPut(m, t, [Type |-> t, TTL |-> ttl, RData |-> <<>>])
        ttl1 == IF m1[t].TTL > ttl THEN ttl ELSE m1[t].TTL
    IN MapPut(m1, t, [Type |-> t, TTL |-> ttl1, RData |-> m1[t].RData \o items])

normalizeFQDNs(v) == [i \in 1..Len(v) |-> ToLower(MustFQDN(v[i]))]

hasOtherTypes(m) ==
    IF Cardinality(DOMAIN m) = 0 THEN FALSE
    ELSE IF Cardinality(DOMAIN m) = 1 THEN TypeCNAME \in DOMAIN m
    ELSE TRUE

\* toStringSlice: the error cases (values missing, not an array, a non-string element)
toStringSliceErr(v) == v.kind # "strings"

\* toMXSlice: the error cases
toMXSliceErr(v) == v.kind # "mx"

\* toSRVSlice: the error cases
toSRVSliceErr(v) == v.kind # "srv"

\* the body of the loop over z.Records in ToIndex, for one record
ToIndexRecord(by, r, zoneFQDN, ttlDefault) ==
    LET rt == ToUpperType(r.Type)
        fqdn == NormalizeFQDN(r.Name, zoneFQDN)
        by1 == ensureName(by, fqdn)
        m == by1[fqdn]
        ttl == ensureTTL(r.TTL, ttlDefault)
        Fail == [err |-> TRUE, by |-> by1]
        Ok(m2) == [err |-> FALSE, by |-> MapPut(by1, fqdn, m2)]
    IN CASE rt = TypeCNAME ->
              IF r.Value = <<>> THEN Fail
              ELSE IF hasOtherTypes(m) THEN Fail
              ELSE Ok(MapPut(m, TypeCNAME,
                        [Type |-> TypeCNAME, TTL |-> ttl,
                         RData |-> <<NormalizeFQDN(r.Value, zoneFQDN)>>]))
         [] rt = TypeA ->
              IF toStringSliceErr(r.Values) THEN Fail
              ELSE IF \E i \in 1..Len(r.Values.items) : ~IsValidA(r.Values.items[i]) THEN Fail
              ELSE Ok(appendRRSet(m, TypeA, ttl,
                        [i \in 1..Len(r.Values.items) |-> To4(r.Values.items[i])]))
         [] rt = TypeAAAA ->
              IF toStringSliceErr(r.Values) THEN Fail
              ELSE IF \E i \in 1..Len(r.Values.items) : ~IsValidAAAA(r.Values.items[i]) THEN Fail
              ELSE Ok(appendRRSet(m, TypeAAAA, ttl, r.Values.items))
         [] rt = TypeTXT ->
              IF toStringSliceErr(r.Values) THEN Fail
              ELSE Ok(appendRRSet(m, TypeTXT, ttl, r.Values.items))
         [] rt = TypeNS ->
              IF toStringSliceErr(r.Values) THEN Fail
              ELSE Ok(appendRRSet(m, TypeNS, ttl, normalizeFQDNs(r.Values.items)))
         [] rt = TypeMX ->
              IF toMXSliceErr(r.Values) THEN Fail
              ELSE Ok(appendRRSet(m, TypeMX, ttl,
                        [i \in 1..Len(r.Values.items) |->
                            [Preference |-> r.Values.items[i].Preference,
                             Host |-> ToLower(MustFQDN(r.Values.items[i].Host))]]))
         [] rt = TypeSRV ->
              IF toSRVSliceErr(r.Values) THEN Fail
              ELSE Ok(appendRRSet(m, TypeSRV, ttl,
                        [i \in 1..Len(r.Values.items) |->
                            [Priority |-> r.Values.items[i].Priority,
                             Weight |-> r.Values.items[i].Weight,
                             Port |-> r.Values.items[i].Port,
                             Target |-> ToLower(MustFQDN(r.Values.items[i].Target))]]))
         [] OTHER -> Fail

RECURSIVE ToIndexRecords(_, _, _, _, _)
\* the loop over z.Records, from record i on; stops at the first error
ToIndexRecords(by, records, i, zoneFQDN, ttlDefault) ==
    IF i > Len(records) THEN [err |-> FALSE, by |-> by]
    ELSE LET Rest(s) == IF s.err THEN s
                        ELSE ToIndexRecords(s.by, records, i + 1, zoneFQDN, ttlDefault)
         IN Call(Rest, ToIndexRecord(by, records[i], zoneFQDN, ttlDefault))

\* ZoneFile.ToIndex: [err, idx]; idx is nil when err
ToIndex(z) ==
    IF Validate(z) THEN [err |-> TRUE, idx |-> NilIndex]
    ELSE LET zoneFQDN == MustFQDN(ValidatedZone(z))
             apex == ToLower(zoneFQDN)
             by0 == IF Len(z.NS) > 0
                    THEN MapPut(EmptyMap, apex,
                           MapPut(EmptyMap, TypeNS,
                             [Type |-> TypeNS, TTL |-> ttlOrDef(0, z.TTLDefault),
                              RData |-> normalizeFQDNs(z.NS)]))
                    ELSE EmptyMap
             r == ToIndexRecords(by0, z.Records, 1, zoneFQDN, z.TTLDefault)
         IN IF r.err THEN [err |-> TRUE, idx |-> NilIndex]
            ELSE [err |-> FALSE,
                  idx |-> [ZoneFQDN |-> ToLower(zoneFQDN), Serial |-> z.Serial,
                           SOA |-> z.SOA, TTLDef |-> z.TTLDefault, ByName |-> r.by]]

----------------------------------------------------------------------------
(* Zone store: internal/zone/loader.go *)

\* the orders in which a Go range statement may visit the keys of a map
Orders(S) == {o \in [1..Cardinality(S) -> S] : \A i, j \in 1..Cardinality(S) : o[i] = o[j] => i = j}

RECURSIVE GetZoneScanAnySuffix(_, _, _, _)
\* the range loop of GetZoneForName without the length comparison: the last suffix wins
GetZoneScanAnySuffix(name, order, i, best) ==
    IF i > Len(order) THEN best
    ELSE IF HasSuffix(name, order[i])
         THEN GetZoneScanAnySuffix(name, order, i + 1, order[i])
         ELSE GetZoneScanAnySuffix(name, order, i + 1, best)

RECURSIVE GetZoneScan(_, _, _, _)
\* the range loop of GetZoneForName over the zones in the order given: the final best
GetZoneScan(name, order, i, best) ==
    IF i > Len(order) THEN best
    ELSE IF HasSuffix(name, order[i]) /\ Len(order[i]) > Len(best)
         THEN GetZoneScan(name, order, i + 1, order[i])
         ELSE GetZoneScan(name, order, i + 1, best)

\* Store.GetZoneForName, the map being ranged over in the order given
GetZoneForNameIn(zones, qname, order) ==
    LET best == GetZoneScan(ToLower(qname), order, 1, <<>>)
    IN [zi |-> IF best \in DOMAIN zones THEN zones[best] ELSE NilIndex, zone |-> best]

\* Store.GetZoneForName
GetZoneForName(zones, qname) ==
    GetZoneForNameIn(zones, qname, CHOOSE o \in Orders(DOMAIN zones) : TRUE)

\* Store.SwapZone
SwapZone(zones, newz) == MapPut(zones, newz.ZoneFQDN, newz)

\* Store.RemoveZone
RemoveZone(zones, zone) == MapDelete(zones, ToLower(MustFQDN(zone)))

----------------------------------------------------------------------------
(* Response cache: internal/cache/rrcache.go.  A cache is the sequence of *)
(* its entries [Key, ExpireAt, Data], least recently used first, which is  *)
(* the order of lru.Cache.Keys().                                          *)

\* the smallest --cache-size for which NewRRCaches succeeds
CacheSize == 10

\* NewRRCaches: the capacities handed to lru.New
PosCapacity == CacheSize
NegCapacity == CacheSize \div 10

\* RRCaches.key
key(name, qtype) == [Name |-> ToLower(name), Type |-> qtype]

\* the negKey built by GetNegative and PutNegative
negKey(name, qtype, rcode) == [Name |-> ToLower(name), Type |-> qtype, Rcode |-> rcode]

LruContains(c, k) == \E i \in 1..Len(c) : c[i].Key = k

LruPeek(c, k) == c[CHOOSE i \in 1..Len(c) : c[i].Key = k]

\* lru.Cache.Remove
LruRemove(c, k) == LET Keep(e) == e.Key # k IN SelectSeq(c, Keep)

\* lru.Cache.Get on a key that is present: the entry becomes the most recently used
LruTouch(c, k) == Append(LruRemove(c, k), LruPeek(c, k))

\* lru.Cache.Add: insert or update as most recently used, evict the oldest when over size
LruAdd(c, k, expireAt, data, size) ==
    LET c1 == Append(LruRemove(c, k), [Key |-> k, ExpireAt |-> expireAt, Data |-> data])
    IN IF Len(c1) > size THEN Tail(c1) ELSE c1

\* the zero value returned on a miss
NoData == "none"

\* GetPositive with the expiry test off by one: an entry is still served at ExpireAt
GetPositiveAtExpiry(c, name, qtype, t) ==
    LET k == key(name, qtype)
    IN IF LruContains(c, k)
       THEN IF t <= LruPeek(c, k).ExpireAt
            THEN [ok |-> TRUE, data |-> LruPeek(c, k).Data, cache |-> LruTouch(c, k)]
            ELSE [ok |-> FALSE, data |-> NoData, cache |-> LruRemove(c, k)]
       ELSE [ok |-> FALSE, data |-> NoData, cache |-> c]

\* RRCaches.GetPositive at time t: [ok, data, cache]
GetPositive(c, name, qtype, t) ==
    LET k == key(name, qtype)
    IN IF LruContains(c, k)
       THEN IF t < LruPeek(c, k).ExpireAt
            THEN [ok |-> TRUE, data |-> LruPeek(c, k).Data, cache |-> LruTouch(c, k)]
            ELSE [ok |-> FALSE, data |-> NoData, cache |-> LruRemove(c, k)]
       ELSE [ok |-> FALSE, data |-> NoData, cache |-> c]

\* RRCaches.PutPositive at time t
PutPositive(c, name, qtype, data, ttl, t) ==
    LruAdd(c, key(name, qtype), t + ttl, data, PosCapacity)

\* RRCaches.GetNegative at time t: [ok, cache]
GetNegative(c, name, qtype, rcode, t) ==
    LET k == negKey(name, qtype, rcode)
    IN IF LruContains(c, k)
       THEN IF t < LruPeek(c, k).ExpireAt
            THEN [ok |-> TRUE, cache |-> LruTouch(c, k)]
            ELSE [ok |-> FALSE, cache |-> LruRemove(c, k)]
       ELSE [ok |-> FALSE, cache |-> c]

\* RRCaches.PutNegative at time t
PutNegative(c, name, qtype, rcode, ttl, t) ==
    LruAdd(c, negKey(name, qtype, rcode), t + ttl, NoData, NegCapacity)

\* InvalidateZone without the lowercasing of the zone name
InvalidateZoneCaseSensitive(c, zone) ==
    LET Keep(e) == ~HasSuffix(e.Key.Name, zone) IN SelectSeq(c, Keep)

\* RRCaches.InvalidateZone, for one of the two caches
InvalidateZone(c, zone) ==
    LET Keep(e) == ~HasSuffix(e.Key.Name, ToLower(zone)) IN SelectSeq(c, Keep)

----------------------------------------------------------------------------
(* Query engine: internal/dnsserver/handler.go *)

RcodeSuccess == 0
RcodeFormatError == 1
RcodeServerFailure == 2
RcodeNameError == 3

TypeSOA == "SOA"
TypeANY == "ANY"

maxCNAME == 8

\* no message: nothing was written
NoMsg == [Id |-> 0 - 1, Rcode |-> 0 - 1, Authoritative |-> FALSE, RecursionAvailable |-> FALSE,
          Question |-> <<>>, Answer |-> <<>>, Ns |-> <<>>, Extra |-> <<>>]

\* new(dns.Msg) followed by SetReply(req)
SetReply(req) ==
    [Id |-> req.Id, Rcode |-> RcodeSuccess, Authoritative |-> FALSE,
     RecursionAvailable |-> FALSE,
     Question |-> IF Len(req.Question) > 0 THEN <<req.Question[1]>> ELSE <<>>,
     Answer |-> <<>>, Ns |-> <<>>, Extra |-> <<>>]

\* new(dns.Msg) followed by SetRcode(req, rcode)
SetRcode(req, rcode) == [SetReply(req) EXCEPT !.Rcode = rcode]

toRRType(qt) == IF qt \in RRTypes THEN qt ELSE ""

\* toRR: one record per rdata element, owned by name
toRR(name, rrset) ==
    IF rrset.Type \in RRTypes
    THEN [i \in 1..Len(rrset.RData) |->
            [Name |-> name, Rrtype |-> rrset.Type, Ttl |-> rrset.TTL, Data |-> rrset.RData[i]]]
    ELSE <<>>

NotFound == [rrs |-> <<>>, ttl |-> 0, ok |-> FALSE]

RECURSIVE findWildcardStopsAtOwner(_, _, _, _, _)
\* the wildcard loop giving up at the first wildcard owner the index holds, whatever
\* its types
findWildcardStopsAtOwner(zi, name, labels, i, qtype) ==
    IF i >= Len(labels) - 1 THEN NotFound
    ELSE LET wc == WildcardName(labels, i)
         IN IF wc \in DOMAIN zi.ByName /\ toRRType(qtype) \in DOMAIN zi.ByName[wc]
            THEN [rrs |-> toRR(name, zi.ByName[wc][toRRType(qtype)]),
                  ttl |-> zi.ByName[wc][toRRType(qtype)].TTL, ok |-> TRUE]
            ELSE IF wc \in DOMAIN zi.ByName /\ TypeCNAME \in DOMAIN zi.ByName[wc]
            THEN [rrs |-> toRR(name, zi.ByName[wc][TypeCNAME]),
                  ttl |-> zi.ByName[wc][TypeCNAME].TTL, ok |-> TRUE]
            ELSE IF wc \in DOMAIN zi.ByName THEN NotFound
            ELSE findWildcardStopsAtOwner(zi, name, labels, i + 1, qtype)

RECURSIVE findWildcard(_, _, _, _, _)
\* the wildcard loop of findRRSet, from index i on
findWildcard(zi, name, labels, i, qtype) ==
    IF i >= Len(labels) - 1 THEN NotFound
    ELSE LET wc == WildcardName(labels, i)
         IN IF wc \in DOMAIN zi.ByName /\ toRRType(qtype) \in DOMAIN zi.ByName[wc]
            THEN [rrs |-> toRR(name, zi.ByName[wc][toRRType(qtype)]),
                  ttl |-> zi.ByName[wc][toRRType(qtype)].TTL, ok |-> TRUE]
            ELSE IF wc \in DOMAIN zi.ByName /\ TypeCNAME \in DOMAIN zi.ByName[wc]
            THEN [rrs |-> toRR(name, zi.ByName[wc][TypeCNAME]),
                  ttl |-> zi.ByName[wc][TypeCNAME].TTL, ok |-> TRUE]
            ELSE findWildcard(zi, name, labels, i + 1, qtype)

\* Resolver.findRRSet: [rrs, ttl, ok]
findRRSet(zi, name, qtype) ==
    IF name \in DOMAIN zi.ByName /\ toRRType(qtype) \in DOMAIN zi.ByName[name]
    THEN [rrs |-> toRR(name, zi.ByName[name][toRRType(qtype)]),
          ttl |-> zi.ByName[name][toRRType(qtype)].TTL, ok |-> TRUE]
    ELSE findWildcard(zi, name, SplitDomainName(name), 0, qtype)

hasName(zi, name) == name \in DOMAIN zi.ByName

hasWildcardCandidate(zi, name) ==
    LET labels == SplitDomainName(name)
    IN \E i \in 0..(Len(labels) - 2) : WildcardName(labels, i) \in DOMAIN zi.ByName

\* Resolver.lookupAorAAAA
lookupAorAAAA(zi, host) ==
    LET name == ToLower(Fqdn(host))
    IN IF name \in DOMAIN zi.ByName
       THEN (IF TypeA \in DOMAIN zi.ByName[name]
             THEN toRR(name, zi.ByName[name][TypeA]) ELSE <<>>)
            \o (IF TypeAAAA \in DOMAIN zi.ByName[name]
                THEN toRR(name, zi.ByName[name][TypeAAAA]) ELSE <<>>)
       ELSE <<>>

RECURSIVE addAdditionalsFrom(_, _, _)
addAdditionalsFrom(zi, answers, i) ==
    IF i > Len(answers) THEN <<>>
    ELSE (CASE answers[i].Rrtype = TypeMX -> lookupAorAAAA(zi, answers[i].Data.Host)
            [] answers[i].Rrtype = TypeNS -> lookupAorAAAA(zi, answers[i].Data)
            [] OTHER -> <<>>)
         \o addAdditionalsFrom(zi, answers, i + 1)

\* Resolver.addAdditionals
addAdditionals(zi, answers) == addAdditionalsFrom(zi, answers, 1)

\* handler.go's min: 0 counts as unset
min(a, b) == IF a = 0 THEN b ELSE IF b = 0 THEN a ELSE IF a < b THEN a ELSE b

\* the end of lookup, after the loop: NODATA or NXDOMAIN, decided on the query name
lookupNegative(zi, name) ==
    IF hasName(zi, name) \/ hasWildcardCandidate(zi, name)
    THEN [ans |-> <<>>, addl |-> <<>>, rcode |-> RcodeSuccess, ttl |-> 0]
    ELSE [ans |-> <<>>, addl |-> <<>>, rcode |-> RcodeNameError, ttl |-> 0]

RECURSIVE lookupLoop(_, _, _, _, _, _, _, _)
\* the for loop of lookup, from iteration i on
lookupLoop(zi, name, qtype, i, cur, visited, ans, ttl) ==
    IF i >= maxCNAME THEN lookupNegative(zi, name)
    ELSE LET Follow(c) ==
                 LET t1 == min(ttl, c.ttl)
                 IN IF c.ok
                    THEN lookupLoop(zi, name, qtype, i + 1, ToLower(c.rrs[1].Data),
                                    visited \cup {cur}, ans \o c.rrs,
                                    IF t1 = 0 THEN c.ttl ELSE t1)
                    ELSE lookupNegative(zi, name)
             Found(f) ==
                 IF f.ok
                 THEN [ans |-> ans \o f.rrs, addl |-> addAdditionals(zi, f.rrs),
                       rcode |-> RcodeSuccess, ttl |-> f.ttl]
                 ELSE IF cur \in visited
                 THEN [ans |-> <<>>, addl |-> <<>>, rcode |-> RcodeServerFailure, ttl |-> 0]
                 ELSE Call(Follow, findRRSet(zi, cur, TypeCNAME))
         IN Call(Found, findRRSet(zi, cur, qtype))

\* Resolver.lookup: [ans, addl, rcode, ttl]
lookup(zi, qname, qtype) ==
    lookupLoop(zi, ToLower(Fqdn(qname)), qtype, 0, ToLower(Fqdn(qname)), {}, <<>>, 0)

\* Resolver.makeSOA
makeSOA(zi) ==
    [Name |-> zi.ZoneFQDN, Rrtype |-> TypeSOA, Ttl |-> zi.TTLDef,
     Data |-> [Ns |-> zi.SOA.MName, Mbox |-> zi.SOA.RName, Serial |-> zi.Serial,
               Refresh |-> zi.SOA.Refresh, Retry |-> zi.SOA.Retry,
               Expire |-> zi.SOA.Expire, Minttl |-> zi.SOA.NegativeTTL]]

\* the depth limit of iterativeResolve
maxDepth == 16

\* the TTL iterativeResolve falls back to when a reply carries none
defaultTTL == 60

\* no reply: the exchange ended in an error (timeout, refused connection)
NoReply == [err |-> TRUE, truncated |-> FALSE, msg |-> NoMsg]

\* what the name servers do: (server, name, qtype) -> the reply over UDP and the reply
\* over TCP; a question the world does not list gets no reply
Exchange(world, net, srv, name, qtype) ==
    IF <<net, srv, name, qtype>> \in DOMAIN world
    THEN world[<<net, srv, name, qtype>>] ELSE NoReply

\* clientUDP.Exchange, then clientTCP.Exchange when the reply is truncated
ExchangeBoth(world, srv, name, qtype) ==
    LET r1 == Exchange(world, "udp", srv, name, qtype)
    IN IF r1.err THEN r1
       ELSE IF r1.truncated THEN Exchange(world, "tcp", srv, name, qtype)
       ELSE r1

RECURSIVE FirstReply(_, _, _, _, _)
\* the loop over the current servers: the first server that replies
FirstReply(world, servers, i, name, qtype) ==
    IF i > Len(servers) THEN NoReply
    ELSE LET r == ExchangeBoth(world, servers[i], name, qtype)
         IN IF r.err THEN FirstReply(world, servers, i + 1, name, qtype) ELSE r

RECURSIVE MinTTLOf(_, _, _)
\* ttl folded with min over the records of a section, from record i on
MinTTLOf(rrs, i, ttl) ==
    IF i > Len(rrs) THEN ttl ELSE MinTTLOf(rrs, i + 1, min(ttl, rrs[i].Ttl))

\* extractMinTTL
extractMinTTL(m) ==
    LET ttl == MinTTLOf(m.Extra, 1, MinTTLOf(m.Ns, 1, MinTTLOf(m.Answer, 1, 0)))
    IN IF ttl = 0 THEN defaultTTL ELSE ttl

\* ternaryTTL
ternaryTTL(v, def) == IF v = 0 THEN def ELSE v

WithType(rrs, t) == LET Is(rr) == rr.Rrtype = t IN SelectSeq(rrs, Is)

RECURSIVE pickGlueFrom(_, _, _, _, _)
\* the loop of pickGlue over resp.Extra, from record i on; set holds the A addresses
pickGlueFrom(extra, i, nsNames, glue, set) ==
    IF i > Len(extra) THEN glue
    ELSE LET rr == extra[i]
             Match(ns) == ToLower(rr.Name) = ToLower(Fqdn(ns))
             hits == SelectSeq(nsNames, Match)
         IN IF rr.Rrtype = TypeA
            THEN pickGlueFrom(extra, i + 1, nsNames,
                              glue \o [j \in 1..Len(hits) |-> rr.Data],
                              IF Len(hits) > 0 THEN set \cup {rr.Data} ELSE set)
            ELSE IF rr.Rrtype = TypeAAAA /\ rr.Data \notin set
            THEN pickGlueFrom(extra, i + 1, nsNames,
                              glue \o [j \in 1..Len(hits) |-> rr.Data], set)
            ELSE pickGlueFrom(extra, i + 1, nsNames, glue, set)

\* pickGlue: the addresses (host:53) of the name servers named in the referral
pickGlue(m, nsNames) == pickGlueFrom(m.Extra, 1, nsNames, <<>>, {})

RECURSIVE lookupGlueAFrom(_, _, _, _)
\* the loop of lookupGlueA over the servers, from server i on
lookupGlueAFrom(world, servers, i, host) ==
    IF i > Len(servers) THEN <<>>
    ELSE LET r == ExchangeBoth(world, servers[i], Fqdn(host), TypeA)
             ips == WithType(r.msg.Answer, TypeA)
             ex == WithType(r.msg.Extra, TypeA)
         IN IF r.err THEN lookupGlueAFrom(world, servers, i + 1, host)
            ELSE IF Len(ips) > 0 THEN [j \in 1..Len(ips) |-> ips[j].Data]
            ELSE IF Len(ex) > 0 THEN <<ex[1].Data>>
            ELSE lookupGlueAFrom(world, servers, i + 1, host)

\* Resolver.lookupGlueA
lookupGlueA(world, servers, host) == lookupGlueAFrom(world, servers, 1, host)

RECURSIVE ResolveGlue(_, _, _, _)
\* the loop over nsNames that resolves glue through the current servers
ResolveGlue(world, servers, nsNames, i) ==
    IF i > Len(nsNames) THEN <<>>
    ELSE LET aips == lookupGlueA(world, servers, nsNames[i])
         IN IF Len(aips) > 0 THEN aips ELSE ResolveGlue(world, servers, nsNames, i + 1)

\* iterativeResolve returned nil
NoResolution == [nil |-> TRUE, msg |-> NoMsg, ttl |-> 0, depth |-> 0]

RECURSIVE iterativeLoopOneMore(_, _, _, _, _, _)
\* the for loop of iterativeResolve running one iteration past maxDepth
iterativeLoopOneMore(world, servers, name, qtype, depth, ttlMin) ==
    IF depth > maxDepth THEN [NoResolution EXCEPT !.depth = depth]
    ELSE
    LET Step(r) ==
          LET m == r.msg
              cnames == WithType(m.Answer, TypeCNAME)
              nsNames == LET rrs == WithType(m.Ns, TypeNS)
                         IN [j \in 1..Len(rrs) |-> rrs[j].Data]
              glue == pickGlue(m, nsNames)
              Answered(ttlA) ==
                  IF qtype # TypeCNAME /\ Len(WithType(m.Answer, qtype)) = 0
                     /\ Len(cnames) > 0
                  THEN iterativeLoopOneMore(world, servers, Fqdn(cnames[1].Data), qtype,
                                            depth + 1, min(ttlA, cnames[1].Ttl))
                  ELSE [nil |-> FALSE, msg |-> m, ttl |-> ternaryTTL(ttlA, defaultTTL),
                        depth |-> depth + 1]
              Referred(nextServers) ==
                  IF Len(nextServers) = 0 THEN [NoResolution EXCEPT !.depth = depth + 1]
                  ELSE iterativeLoopOneMore(world, nextServers, name, qtype, depth + 1, ttlMin)
          IN IF r.err THEN [NoResolution EXCEPT !.depth = depth + 1]
             ELSE IF m.Rcode = RcodeNameError
             THEN [nil |-> FALSE, msg |-> m, ttl |-> extractMinTTL(m), depth |-> depth + 1]
             ELSE IF Len(m.Answer) > 0
             THEN Call(Answered, MinTTLOf(m.Answer, 1, ttlMin))
             ELSE IF Len(m.Ns) > 0
             THEN Call(Referred, IF Len(glue) > 0 THEN glue
                                 ELSE ResolveGlue(world, servers, nsNames, 1))
             ELSE [nil |-> FALSE, msg |-> m, ttl |-> extractMinTTL(m), depth |-> depth + 1]
    IN Call(Step, FirstReply(world, servers, 1, name, qtype))

RECURSIVE iterativeLoop(_, _, _, _, _, _)
\* the for loop of iterativeResolve, from iteration depth on: [nil, msg, ttl, depth]
iterativeLoop(world, servers, name, qtype, depth, ttlMin) ==
    IF depth >= maxDepth THEN [NoResolution EXCEPT !.depth = depth]
    ELSE
    LET Step(r) ==
          LET m == r.msg
              cnames == WithType(m.Answer, TypeCNAME)
              nsNames == LET rrs == WithType(m.Ns, TypeNS)
                         IN [j \in 1..Len(rrs) |-> rrs[j].Data]
              glue == pickGlue(m, nsNames)
              Answered(ttlA) ==
                  IF qtype # TypeCNAME /\ Len(WithType(m.Answer, qtype)) = 0
                     /\ Len(cnames) > 0
                  THEN iterativeLoop(world, servers, Fqdn(cnames[1].Data), qtype,
                                     depth + 1, min(ttlA, cnames[1].Ttl))
                  ELSE [nil |-> FALSE, msg |-> m, ttl |-> ternaryTTL(ttlA, defaultTTL),
                        depth |-> depth + 1]
              Referred(nextServers) ==
                  IF Len(nextServers) = 0 THEN [NoResolution EXCEPT !.depth = depth + 1]
                  ELSE iterativeLoop(world, nextServers, name, qtype, depth + 1, ttlMin)
          IN IF r.err THEN [NoResolution EXCEPT !.depth = depth + 1]
             ELSE IF m.Rcode = RcodeNameError
             THEN [nil |-> FALSE, msg |-> m, ttl |-> extractMinTTL(m), depth |-> depth + 1]
             ELSE IF Len(m.Answer) > 0
             THEN Call(Answered, MinTTLOf(m.Answer, 1, ttlMin))
             ELSE IF Len(m.Ns) > 0
             THEN Call(Referred, IF Len(glue) > 0 THEN glue
                                 ELSE ResolveGlue(world, servers, nsNames, 1))
             ELSE [nil |-> FALSE, msg |-> m, ttl |-> extractMinTTL(m), depth |-> depth + 1]
    IN Call(Step, FirstReply(world, servers, 1, name, qtype))

\* Resolver.iterativeResolve
iterativeResolve(world, roots, qname, qtype) ==
    IF Len(roots) = 0 THEN NoResolution
    ELSE iterativeLoop(world, roots, Fqdn(qname), qtype, 0, 0)

\* the ANY branch of ServeDNS with the apex NS records dumped into the answer
ServeANYDumpsApex(zones, cpos, cneg, req, order) ==
    LET zi == GetZoneForNameIn(zones, Fqdn(req.Question[1].Name), order).zi
        reply == [SetReply(req) EXCEPT !.Authoritative = TRUE]
    IN [pos |-> cpos, neg |-> cneg, resolved |-> FALSE,
        msg |-> IF IsNil(zi) THEN reply
                ELSE [reply EXCEPT !.Ns = <<makeSOA(zi)>>,
                                   !.Answer = toRR(zi.ZoneFQDN, zi.ByName[zi.ZoneFQDN][TypeNS])]]

\* the ANY branch of ServeDNS: the SOA of the enclosing zone, if any, in authority
ServeANY(zones, cpos, cneg, req, order) ==
    LET zi == GetZoneForNameIn(zones, Fqdn(req.Question[1].Name), order).zi
        reply == [SetReply(req) EXCEPT !.Authoritative = TRUE]
    IN [pos |-> cpos, neg |-> cneg, resolved |-> FALSE,
        msg |-> [reply EXCEPT !.Ns = IF IsNil(zi) THEN <<>> ELSE <<makeSOA(zi)>>]]

\* the branch of ServeDNS for a name outside every zone, after the first cache miss
ServeOutOfZone(cpos, cneg, t, req, reply, enable, world, roots) ==
    LET qname == Fqdn(req.Question[1].Name)
        qtype == req.Question[1].Qtype
        cached == GetPositive(cpos, qname, qtype, t)
        x == iterativeResolve(world, roots, qname, qtype)
        m == [x.msg EXCEPT !.Id = req.Id]
    IN IF enable /\ cached.ok
       THEN LET v == [cached.data EXCEPT !.Id = req.Id]
                k == key(qname, qtype)
            IN [pos |-> [i \in 1..Len(cached.cache) |->
                           IF cached.cache[i].Key = k
                           THEN [cached.cache[i] EXCEPT !.Data = v] ELSE cached.cache[i]],
                neg |-> cneg, msg |-> v, resolved |-> FALSE]
       ELSE IF enable /\ ~x.nil
       THEN [pos |-> IF m.Rcode = RcodeSuccess /\ (Len(m.Answer) > 0 \/ Len(m.Ns) > 0)
                     THEN PutPositive(cached.cache, qname, qtype, m, x.ttl, t)
                     ELSE cached.cache,
             neg |-> cneg, msg |-> m, resolved |-> TRUE]
       ELSE [pos |-> IF enable THEN cached.cache ELSE cpos, neg |-> cneg,
             msg |-> [reply EXCEPT !.Rcode = RcodeNameError], resolved |-> enable]

\* Resolver.ServeDNS at time t, the store being ranged over in the order given: the
\* caches it leaves, the message it writes and whether iterativeResolve was called.
\* enable is Resolver.EnableResolver, roots Resolver.RootServers.
ServeDNSWith(zones, cpos, cneg, t, req, order, enable, world, roots) ==
    IF Len(req.Question) = 0
    THEN [pos |-> cpos, neg |-> cneg, msg |-> SetRcode(req, RcodeFormatError),
          resolved |-> FALSE]
    ELSE
    LET qname == Fqdn(req.Question[1].Name)
        qtype == req.Question[1].Qtype
        z == GetZoneForNameIn(zones, qname, order)
        hit == GetPositive(cpos, qname, qtype, t)
        reply == [SetReply(req) EXCEPT !.Authoritative = TRUE, !.RecursionAvailable = FALSE]
        l == lookup(z.zi, qname, qtype)
        answered == [reply EXCEPT !.Rcode = l.rcode, !.Answer = l.ans, !.Extra = l.addl]
    IN IF qtype = TypeANY
       THEN ServeANY(zones, cpos, cneg, req, order)
       ELSE IF hit.ok
       THEN \* v.Id = req.Id; v.RecursionAvailable = false: v is the cached message itself
            LET v == [hit.data EXCEPT !.Id = req.Id, !.RecursionAvailable = FALSE]
                k == key(qname, qtype)
            IN [pos |-> [i \in 1..Len(hit.cache) |->
                           IF hit.cache[i].Key = k
                           THEN [hit.cache[i] EXCEPT !.Data = v] ELSE hit.cache[i]],
                neg |-> cneg, msg |-> v, resolved |-> FALSE]
       ELSE IF IsNil(z.zi)
       THEN ServeOutOfZone(hit.cache, cneg, t, req, reply, enable, world, roots)
       ELSE IF l.rcode = RcodeSuccess /\ Len(l.ans) > 0
       THEN [pos |-> PutPositive(hit.cache, qname, qtype, answered, l.ttl, t),
             neg |-> cneg, msg |-> answered, resolved |-> FALSE]
       ELSE IF l.rcode # RcodeSuccess
       THEN [pos |-> hit.cache,
             neg |-> PutNegative(cneg, qname, qtype, l.rcode, z.zi.SOA.NegativeTTL, t),
             msg |-> [answered EXCEPT !.Ns = <<makeSOA(z.zi)>>], resolved |-> FALSE]
       ELSE [pos |-> hit.cache, neg |-> cneg, msg |-> answered, resolved |-> FALSE]

\* Resolver.ServeDNS of a server run with its default flags: the resolver is off
ServeDNSResult(zones, cpos, cneg, t, req, order) ==
    ServeDNSWith(zones, cpos, cneg, t, req, order, FALSE, EmptyMap, <<>>)

\* readZonePath / readZoneFile: os.ReadFile and json.Unmarshal of what the path holds
readZonePath(content) == [err |-> content.kind # "json", zf |-> content.zf]

RECURSIVE LoadZonesFrom(_, _, _)
\* the loop of LoadZonesDir over the sorted entries, from entry i on
LoadZonesFrom(entries, i, out) ==
    IF i > Len(entries) THEN [err |-> Cardinality(DOMAIN out) = 0, out |-> out]
    ELSE LET f == readZonePath(entries[i])
             Rest(o) == LoadZonesFrom(entries, i + 1, o)
             Put(x) == IF f.err THEN [err |-> TRUE, out |-> EmptyMap]
                       ELSE IF x.err THEN [err |-> TRUE, out |-> EmptyMap]
                       ELSE Call(Rest, MapPut(out, x.idx.ZoneFQDN, x.idx))
         IN Call(Put, ToIndex(f.zf))

\* LoadZonesDir: entries are the contents of the .dns files in sorted path order
LoadZonesDir(entries) == LoadZonesFrom(entries, 1, EmptyMap)

----------------------------------------------------------------------------
(* Zone files and queries the model is run on *)

\* a dot-terminated name from one-character labels: Name(<<"w","d","c">>) is w.d.c.
Name(labels) == Join([i \in 1..Len(labels) |-> <<labels[i]>>]) \o <<".">>

NoValues == [kind |-> "nil", items |-> <<>>]
Strings(items) == [kind |-> "strings", items |-> items]
MXValues(items) == [kind |-> "mx", items |-> items]

Record(name, type, ttl, value, values) ==
    [Name |-> name, Type |-> type, TTL |-> ttl, Value |-> value, Values |-> values]

SOAOf(zone, negttl) ==
    [MName |-> <<"n", ".">> \o zone, RName |-> <<"h", ".">> \o zone,
     Refresh |-> 0, Retry |-> 0, Expire |-> 0, NegativeTTL |-> negttl]

ZoneD == Name(<<"d", "c">>)
ZoneSD == Name(<<"s", "d", "c">>)

\* the README's example zone, deneme.com., with short labels and small TTLs:
\* @ A, www CNAME @, @ MX mail, mail AAAA, _dmarc TXT, * A
ReadmeZone ==
    [Zone |-> ZoneD, Serial |-> 1, TTLDefault |-> 3, SOA |-> SOAOf(ZoneD, 2),
     NS |-> <<Name(<<"n", "d", "c">>)>>,
     Records |-> <<
        Record(<<"@">>, "A", 3, <<>>, Strings(<<"203.0.113.10">>)),
        Record(<<"w">>, "CNAME", 3, <<"@">>, NoValues),
        Record(<<"@">>, "MX", 3, <<>>, MXValues(<<[Preference |-> 10, Host |-> Name(<<"m", "d", "c">>)]>>)),
        Record(<<"m">>, "AAAA", 3, <<>>, Strings(<<"2001:db8::10">>)),
        Record(<<"t">>, "TXT", 3, <<>>, Strings(<<"v=DMARC1">>)),
        Record(<<"*">>, "A", 1, <<>>, Strings(<<"203.0.113.20">>)) >>]

\* the README zone without its wildcard
PlainZone == [ReadmeZone EXCEPT !.Records = SubSeq(ReadmeZone.Records, 1, 5)]

ChainLabels == <<"0", "1", "2", "3", "4", "5", "6", "7", "8", "9", "e", "f", "g">>

\* the number of CNAME records of the chain 0 -> 1 -> ... in ChainZone
ChainLen == 9

\* a zone of CNAME chains: 0 -> 1 -> ... -> ChainLen, which holds an A record;
\* the loop a -> b -> a; the self-loop x -> x; k -> j, a name the zone does not hold;
\* u -> v with TTL 1, v holding an A record with TTL 2
ChainZone ==
    [Zone |-> ZoneD, Serial |-> 1, TTLDefault |-> 3, SOA |-> SOAOf(ZoneD, 2),
     NS |-> <<Name(<<"n", "d", "c">>)>>,
     Records |->
        [i \in 1..ChainLen |->
            Record(<<ChainLabels[i]>>, "CNAME", 0, <<ChainLabels[i + 1]>>, NoValues)]
        \o << Record(<<ChainLabels[ChainLen + 1]>>, "A", 0, <<>>, Strings(<<"203.0.113.30">>)),
              Record(<<"a">>, "CNAME", 0, <<"b">>, NoValues),
              Record(<<"b">>, "CNAME", 0, <<"a">>, NoValues),
              Record(<<"x">>, "CNAME", 0, <<"x">>, NoValues),
              Record(<<"k">>, "CNAME", 0, <<"j">>, NoValues),
              Record(<<"u">>, "CNAME", 1, <<"v">>, NoValues),
              Record(<<"v">>, "A", 2, <<>>, Strings(<<"203.0.113.20">>)) >>]

Json(zf) == [kind |-> "json", zf |-> zf]

\* a zone file with nothing in it: what json.Unmarshal leaves of "{}"
EmptyZoneFile ==
    [Zone |-> <<>>, Serial |-> 0, TTLDefault |-> 0, SOA |-> NilSOA, NS |-> <<>>, Records |-> <<>>]

\* a path that cannot be read, and a file that is not JSON
Missing == [kind |-> "missing", zf |-> EmptyZoneFile]
Garbage == [kind |-> "garbage", zf |-> EmptyZoneFile]

\* no zone file given to ToIndex yet, and no result
NoFile == Missing
NoResult == [err |-> TRUE, idx |-> NilIndex]

\* the zones directories the server is started on
StartupDirs == { <<Json(ReadmeZone)>>, <<Json(PlainZone)>>, <<Json(ChainZone)>> }

Request(id, name, qtype) == [Id |-> id, Question |-> <<[Name |-> name, Qtype |-> qtype]>>]

QueryNames ==
    { Name(<<"d", "c">>), Name(<<"w", "d", "c">>), Name(<<"W", "D", "C">>),
      Name(<<"m", "d", "c">>), Name(<<"x", "y", "d", "c">>), Name(<<"q", "e">>),
      Name(<<"0", "d", "c">>), Name(<<"1", "d", "c">>), Name(<<"2", "d", "c">>),
      Name(<<"3", "d", "c">>), Name(<<"a", "d", "c">>), Name(<<"x", "d", "c">>),
      Name(<<"k", "d", "c">>), Name(<<"u", "d", "c">>),
      <<"x", "d", ".", "c", ".">> }

QueryTypes == {TypeA, TypeAAAA, TypeCNAME, TypeMX, TypeSOA, TypeANY}

Requests == {Request(1, n, t) : n \in QueryNames, t \in QueryTypes}
            \cup {[Id |-> 1, Question |-> <<>>]}

\* the number of queries served in a run of the query specification
MaxQueries == 2

NoOp == [name |-> "none"]

\* the resolver is off, or no name server is reachable
NoUpstream == "none"

\* both cache mutexes free
Unlocked == [pos |-> 0, neg |-> 0]

----------------------------------------------------------------------------
(* The server answering queries from the zones it loaded at startup *)

\* main: LoadZonesDir, SwapZone of every zone loaded, NewRRCaches
InitQuery ==
    /\ \E dir \in StartupDirs :
          /\ ~LoadZonesDir(dir).err
          /\ store = LoadZonesDir(dir).out
    /\ pos = <<>>
    /\ neg = <<>>
    /\ now = 0
    /\ resp = NoMsg
    /\ op = [name |-> "none", served |-> 0]
    /\ putlog = EmptyMap
    /\ tasks = <<>>
    /\ zdir = <<>>
    /\ upstream = NoUpstream
    /\ mu = Unlocked
    /\ zfile = NoFile
    /\ zres = NoResult

\* Resolver.ServeDNS, the whole handler
ServeDNS(req, order) ==
    LET r == ServeDNSResult(store, pos, neg, now, req, order)
    IN /\ pos' = r.pos
       /\ neg' = r.neg
       /\ resp' = r.msg
       /\ op' = [name |-> "ServeDNS", req |-> req, served |-> op.served + 1]
       /\ UNCHANGED <<store, now, putlog, tasks, zfile, zres, zdir, upstream, mu>>

NextQuery ==
    \E req \in Requests, order \in Orders(DOMAIN store) :
        /\ op.served < MaxQueries
        /\ ServeDNS(req, order)

SpecQuery == InitQuery /\ [][NextQuery]_vars

----------------------------------------------------------------------------
(* Properties of the answers, under SpecQuery *)

\* the last operation was a query with a question, other than ANY, for a name in a zone
InZoneQuery ==
    /\ op.name = "ServeDNS"
    /\ Len(op.req.Question) > 0
    /\ ~IsNil(GetZoneForName(store, Fqdn(op.req.Question[1].Name)).zi)

LastQName == ToLower(Fqdn(op.req.Question[1].Name))
LastQType == op.req.Question[1].Qtype
LastZone == GetZoneForName(store, Fqdn(op.req.Question[1].Name)).zi

RECURSIVE CnameTrail(_, _, _, _)
\* the names a resolution of (cur, qtype) passes through, CNAME after CNAME, until a
\* name answers, a name has no CNAME, or a name comes back (loop)
CnameTrail(zi, cur, qtype, trail) ==
    IF cur \in Range(trail) THEN [names |-> trail, loop |-> TRUE]
    ELSE IF findRRSet(zi, cur, qtype).ok THEN [names |-> Append(trail, cur), loop |-> FALSE]
    ELSE IF findRRSet(zi, cur, TypeCNAME).ok
         THEN CnameTrail(zi, ToLower(findRRSet(zi, cur, TypeCNAME).rrs[1].Data), qtype,
                         Append(trail, cur))
         ELSE [names |-> Append(trail, cur), loop |-> FALSE]

\* the CNAME records followed on the trail
CnameHops(t) == IF t.loop THEN Len(t.names) ELSE Len(t.names) - 1

SOAsOf(msg) == LET IsSOA(rr) == rr.Rrtype = TypeSOA IN SelectSeq(msg.Ns, IsSOA)

\* C8: an in-zone query whose resolution runs into a CNAME loop, or whose CNAME chain
\* needs more than 8 hops, is answered ServerFailure (RCODE 2) with an empty answer
\* section.
C8_LoopOrDepthIsServFail ==
    (/\ InZoneQuery
     /\ LastQType # TypeANY
     /\ LET t == CnameTrail(LastZone, LastQName, LastQType, <<>>)
        IN t.loop \/ CnameHops(t) > maxCNAME)
    => (resp.Rcode = RcodeServerFailure /\ resp.Answer = <<>>)

\* C9: every in-zone response with a non-NOERROR rcode, and every in-zone NOERROR
\* response with an empty answer section (NODATA), carries exactly one SOA record in
\* its authority section, whose MINIMUM is the zone's negative_ttl.
C9_NegativeCarriesSOA ==
    (/\ InZoneQuery
     /\ resp.Rcode # RcodeSuccess \/ Len(resp.Answer) = 0)
    => (/\ Len(SOAsOf(resp)) = 1
        /\ Len(resp.Ns) = 1
        /\ SOAsOf(resp)[1].Data.Minttl = LastZone.SOA.NegativeTTL)

\* C10: a query for type T at a name that exists in the zone with some other type,
\* and has neither a type-T RRset nor a CNAME, is answered NOERROR with an empty
\* answer section and the SOA in authority, also when a wildcard owner holding type T
\* covers the name.
C10_NoDataWhenTypeMissing ==
    (/\ InZoneQuery
     /\ LastQType \in RRTypes
     /\ LastQName \in DOMAIN LastZone.ByName
     /\ DOMAIN LastZone.ByName[LastQName] # {}
     /\ LastQType \notin DOMAIN LastZone.ByName[LastQName]
     /\ TypeCNAME \notin DOMAIN LastZone.ByName[LastQName])
    => (/\ resp.Rcode = RcodeSuccess
        /\ resp.Answer = <<>>
        /\ Len(SOAsOf(resp)) = 1)

\* C11: a query for type T (not CNAME) at a name that owns a CNAME whose in-zone
\* target owns a type-T RRset is answered NOERROR with AA=1 and an answer made of the
\* CNAME record followed by the target's type-T records, also in the README zone with
\* its wildcard *.d.c. A.
C11_CnameThenTarget ==
    (/\ InZoneQuery
     /\ LastQType \in RRTypes \ {TypeCNAME}
     /\ LastQName \in DOMAIN LastZone.ByName
     /\ TypeCNAME \in DOMAIN LastZone.ByName[LastQName]
     /\ LastQType \notin DOMAIN LastZone.ByName[LastQName]
     /\ LET target == LastZone.ByName[LastQName][TypeCNAME].RData[1]
        IN /\ target \in DOMAIN LastZone.ByName
           /\ LastQType \in DOMAIN LastZone.ByName[target])
    => LET target == LastZone.ByName[LastQName][TypeCNAME].RData[1]
       IN /\ resp.Rcode = RcodeSuccess
          /\ resp.Authoritative
          /\ resp.Answer = toRR(LastQName, LastZone.ByName[LastQName][TypeCNAME])
                           \o toRR(target, LastZone.ByName[target][LastQType])

\* C12: a query of type SOA for the apex of an installed zone is answered NOERROR with
\* AA=1 and exactly one SOA record in the answer section, carrying the index's serial,
\* its soa.mname and minimum = negative_ttl.
C12_ApexSOAAnswered ==
    (/\ InZoneQuery
     /\ LastQType = TypeSOA
     /\ LastQName = LastZone.ZoneFQDN)
    => (/\ resp.Rcode = RcodeSuccess
        /\ resp.Authoritative
        /\ Len(resp.Answer) = 1
        /\ resp.Answer[1].Rrtype = TypeSOA
        /\ resp.Answer[1].Data.Serial = LastZone.Serial
        /\ resp.Answer[1].Data.Ns = LastZone.SOA.MName
        /\ resp.Answer[1].Data.Minttl = LastZone.SOA.NegativeTTL)

\* the last response is negative: NXDOMAIN, or NOERROR with an empty answer (NODATA)
NegativeResponse ==
    \/ resp.Rcode = RcodeNameError
    \/ resp.Rcode = RcodeSuccess /\ resp.Answer = <<>>

\* C16: every in-zone negative response, NXDOMAIN and NODATA alike, is recorded in the
\* negative cache under (lowercase qname, qtype, rcode) with a lifetime equal to the
\* zone SOA's negative_ttl.
C16_NegativesAreCached ==
    (/\ InZoneQuery
     /\ LastQType # TypeANY
     /\ NegativeResponse)
    => \E i \in 1..Len(neg) :
          /\ neg[i].Key = [Name |-> LastQName, Type |-> LastQType, Rcode |-> resp.Rcode]
          /\ neg[i].ExpireAt = now + LastZone.SOA.NegativeTTL

\* the name a resolution ends at: the last name of its trail
TrailEnd(t) == t.names[Len(t.names)]

\* C19: when the resolution loop ends without a terminal answer, the rcode is decided
\* on the name reached at the end of the CNAME chain: NOERROR with empty answer if that
\* name is in the index or a wildcard candidate covers it, NXDOMAIN otherwise.
C19_RcodeDecidedOnChainEnd ==
    (/\ InZoneQuery
     /\ LastQType \in RRTypes
     /\ LET t == CnameTrail(LastZone, LastQName, LastQType, <<>>)
        IN /\ ~t.loop
           /\ CnameHops(t) < maxCNAME
           /\ ~findRRSet(LastZone, TrailEnd(t), LastQType).ok)
    => LET cur == TrailEnd(CnameTrail(LastZone, LastQName, LastQType, <<>>))
       IN IF hasName(LastZone, cur) \/ hasWildcardCandidate(LastZone, cur)
          THEN resp.Rcode = RcodeSuccess /\ resp.Answer = <<>>
          ELSE resp.Rcode = RcodeNameError

\* the smallest TTL among the records of a section
SmallestTTL(rrs) ==
    CHOOSE x \in {rrs[i].Ttl : i \in 1..Len(rrs)} : \A i \in 1..Len(rrs) : x <= rrs[i].Ttl

\* C20: the TTL with which an in-zone positive response is stored in the positive
\* cache equals the minimum TTL over all records of its answer section, the CNAME
\* records followed on the way included.
C20_CachedWithMinimumTTL ==
    (/\ InZoneQuery
     /\ LastQType # TypeANY
     /\ resp.Rcode = RcodeSuccess
     /\ Len(resp.Answer) > 0)
    => \E i \in 1..Len(pos) :
          /\ pos[i].Key = [Name |-> LastQName, Type |-> LastQType]
          /\ pos[i].ExpireAt = now + SmallestTTL(resp.Answer)

----------------------------------------------------------------------------
(* findRRSet and the additional section, on zones with wildcards and mail hosts *)

\* wildcard owners at two depths, holding the queried type, a CNAME, or neither
WildRecords ==
    << Record(<<"*">>, "A", 1, <<>>, Strings(<<"203.0.113.20">>)),
       Record(<<"*", ".", "y">>, "TXT", 2, <<>>, Strings(<<"v=DMARC1">>)),
       Record(<<"*", ".", "y">>, "A", 2, <<>>, Strings(<<"203.0.113.10">>)),
       Record(<<"*", ".", "z">>, "CNAME", 2, <<"@">>, NoValues),
       Record(<<"x", ".", "y">>, "TXT", 2, <<>>, Strings(<<"v=DMARC1">>)) >>

\* the MX records of the apex: none, two exchanges on one host, one host in the zone
\* and one outside
MailRecords ==
    { <<>>,
      << Record(<<"@">>, "MX", 3, <<>>,
                MXValues(<<[Preference |-> 10, Host |-> Name(<<"m", "d", "c">>)],
                           [Preference |-> 20, Host |-> Name(<<"m", "d", "c">>)]>>)) >>,
      << Record(<<"@">>, "MX", 3, <<>>,
                MXValues(<<[Preference |-> 10, Host |-> Name(<<"m", "d", "c">>)],
                           [Preference |-> 20, Host |-> Name(<<"q", "e">>)]>>)) >> }

\* the address records of the mail host and of the name server, present or not
HostRecords ==
    { <<>>,
      << Record(<<"m">>, "A", 3, <<>>, Strings(<<"203.0.113.30">>)),
         Record(<<"m">>, "AAAA", 3, <<>>, Strings(<<"2001:db8::10">>)),
         Record(<<"n">>, "A", 3, <<>>, Strings(<<"203.0.113.10">>)) >> }

\* the records of WildRecords whose position is in S, in file order
Picked(S) == LET In(r) == \E i \in S : WildRecords[i] = r IN SelectSeq(WildRecords, In)

WildZones ==
    { [ReadmeZone EXCEPT !.Records = Picked(S) \o mx \o hosts] :
        S \in SUBSET (1..Len(WildRecords)), mx \in MailRecords, hosts \in HostRecords }

FindNames ==
    { Name(<<"x", "y", "d", "c">>), Name(<<"p", "q", "y", "d", "c">>),
      Name(<<"q", "z", "d", "c">>), Name(<<"a", "d", "c">>), Name(<<"d", "c">>),
      Name(<<"m", "d", "c">>) }

FindTypes == {TypeA, TypeTXT, TypeCNAME, TypeMX, TypeNS}

FindRequests == {Request(1, n, t) : n \in FindNames, t \in FindTypes}

InitFind ==
    /\ \E z \in WildZones :
          /\ ~LoadZonesDir(<<Json(z)>>).err
          /\ store = LoadZonesDir(<<Json(z)>>).out
    /\ pos = <<>>
    /\ neg = <<>>
    /\ now = 0
    /\ resp = NoMsg
    /\ op = [name |-> "none", served |-> 0]
    /\ putlog = EmptyMap
    /\ tasks = <<>>
    /\ zdir = <<>>
    /\ upstream = NoUpstream
    /\ mu = Unlocked
    /\ zfile = NoFile
    /\ zres = NoResult

\* Resolver.findRRSet(zi, name, qtype) on the zone enclosing name
RunFindRRSet(name, qtype) ==
    /\ op' = [name |-> "findRRSet", qname |-> name, qtype |-> qtype,
              res |-> findRRSet(GetZoneForName(store, name).zi, name, qtype),
              served |-> op.served + 1]
    /\ UNCHANGED <<store, pos, neg, now, resp, putlog, tasks, zfile, zres, zdir, upstream, mu>>

NextFind ==
    \/ \E name \in FindNames, qtype \in FindTypes :
          /\ op.served = 0
          /\ RunFindRRSet(name, qtype)
    \/ \E req \in FindRequests, order \in Orders(DOMAIN store) :
          /\ op.served = 0
          /\ ServeDNS(req, order)

SpecFind == InitFind /\ [][NextFind]_vars

\* the index findRRSet was run on
FoundZone == GetZoneForName(store, op.qname).zi

\* the owner *.<suffix> left when k leading labels of name are stripped
WildcardOwner(name, k) ==
    LET labels == SplitDomainName(name)
    IN <<"*", ".">> \o Join(SubSeq(labels, k + 1, Len(labels))) \o <<".">>

\* the numbers of labels whose stripping leaves a wildcard owner of the index that
\* holds type t or a CNAME
Qualifying(zi, name, t) ==
    { k \in 1..(Len(SplitDomainName(name)) - 1) :
        /\ WildcardOwner(name, k) \in DOMAIN zi.ByName
        /\ \/ t \in DOMAIN zi.ByName[WildcardOwner(name, k)]
           \/ TypeCNAME \in DOMAIN zi.ByName[WildcardOwner(name, k)] }

\* the queried name holds no RRset of the queried type
NoExactRRSet ==
    /\ op.name = "findRRSet"
    /\ ~(op.qname \in DOMAIN FoundZone.ByName
         /\ op.qtype \in DOMAIN FoundZone.ByName[op.qname])

\* C21: when the queried name has no RRset of the queried type, findRRSet answers
\* from the wildcard owner reached by stripping the fewest leading labels among the
\* wildcard owners that hold the queried type or a CNAME; every record returned is
\* owned by the queried name; wildcard owners holding neither are skipped; no match is
\* reported when no owner qualifies.
C21_FirstQualifyingWildcard ==
    NoExactRRSet =>
        LET q == Qualifying(FoundZone, op.qname, op.qtype)
        IN IF q = {} THEN ~op.res.ok /\ op.res.rrs = <<>>
           ELSE LET k == CHOOSE x \in q : \A y \in q : x <= y
                    m == FoundZone.ByName[WildcardOwner(op.qname, k)]
                IN /\ op.res.ok
                   /\ \A i \in 1..Len(op.res.rrs) : op.res.rrs[i].Name = op.qname
                   /\ \/ /\ op.qtype \in DOMAIN m
                         /\ op.res.rrs = toRR(op.qname, m[op.qtype])
                         /\ op.res.ttl = m[op.qtype].TTL
                      \/ /\ op.qtype \notin DOMAIN m
                         /\ op.res.rrs = toRR(op.qname, m[TypeCNAME])
                         /\ op.res.ttl = m[TypeCNAME].TTL

\* findRRSet answered x.y.d.c. A from *.d.c., past the owner *.y.d.c. that holds TXT only
C21_Witness ==
    /\ NoExactRRSet
    /\ op.qname = Name(<<"x", "y", "d", "c">>)
    /\ op.qtype = TypeA
    /\ WildcardOwner(op.qname, 1) \in DOMAIN FoundZone.ByName
    /\ Qualifying(FoundZone, op.qname, op.qtype) = {2}
    /\ op.res.ok
    /\ Len(op.res.rrs) = 1
    /\ op.res.rrs[1].Data = "203.0.113.20"

\* the hosts the MX and NS records of a section refer to
ReferencedHosts(rrs) ==
    { ToLower(Fqdn(rrs[i].Data.Host)) : i \in {j \in 1..Len(rrs) : rrs[j].Rrtype = TypeMX} }
    \cup { ToLower(Fqdn(rrs[i].Data)) : i \in {j \in 1..Len(rrs) : rrs[j].Rrtype = TypeNS} }

\* the A and AAAA records the index holds for a host
AddressRecords(zi, host) ==
    IF host \in DOMAIN zi.ByName
    THEN UNION { Range(toRR(host, zi.ByName[host][t])) :
                   t \in {TypeA, TypeAAAA} \cap DOMAIN zi.ByName[host] }
    ELSE {}

\* C22: for a positive in-zone answer, the additional section holds exactly the A and
\* AAAA records the same zone index has for the hosts of the MX and NS answer records,
\* each of them once, also when several answer records name the same host; hosts
\* outside the zone contribute nothing.
C22_AdditionalsOnceEach ==
    (/\ InZoneQuery
     /\ resp.Rcode = RcodeSuccess
     /\ Len(resp.Answer) > 0)
    => (/\ Range(resp.Extra) =
             UNION { AddressRecords(LastZone, h) : h \in ReferencedHosts(resp.Answer) }
        /\ \A i, j \in 1..Len(resp.Extra) : resp.Extra[i] = resp.Extra[j] => i = j)

----------------------------------------------------------------------------
(* The loader run on zone files drawn from a pool of records *)

\* the longest records list of a generated zone file
MaxRecords == 3

RecordPool ==
    { Record(n, "A", ttl, <<>>, Strings(<<"203.0.113.10">>)) : n \in {<<"@">>, <<"w">>}, ttl \in {0, 1} }
    \cup { Record(<<"@">>, "CNAME", 2, <<"w">>, NoValues),
           Record(<<"w">>, "cname", 2, <<"@">>, NoValues),
           Record(<<"w">>, "TXT", 2, <<>>, Strings(<<"v=DMARC1">>)),
           Record(<<"w">>, "CNAME", 0, <<>>, NoValues),
           Record(<<"w">>, "A", 0, <<>>, Strings(<<"2001:db8::10">>)),
           Record(<<"w">>, "MX", 0, <<>>, NoValues),
           Record(<<"w">>, "PTR", 0, <<>>, Strings(<<"x">>)),
           Record(Name(<<"q", "e">>), "A", 0, <<>>, Strings(<<"203.0.113.10">>)),
           Record(<<"@">>, "NS", 5, <<>>, Strings(<<Name(<<"n", "d", "c">>)>>)) }

RecordLists == UNION {[1..n -> RecordPool] : n \in 0..MaxRecords}

GeneratedZoneFiles ==
    { [Zone |-> ZoneD, Serial |-> 1, TTLDefault |-> 3, SOA |-> SOAOf(ZoneD, 2),
       NS |-> <<Name(<<"n", "d", "c">>)>>, Records |-> rs] : rs \in RecordLists }

InitIndex ==
    /\ zfile \in {Json(zf) : zf \in GeneratedZoneFiles}
    /\ zres = NoResult
    /\ op = [name |-> "none", served |-> 0]
    /\ store = EmptyMap
    /\ pos = <<>>
    /\ neg = <<>>
    /\ now = 0
    /\ resp = NoMsg
    /\ putlog = EmptyMap
    /\ tasks = <<>>
    /\ zdir = <<>>
    /\ upstream = NoUpstream
    /\ mu = Unlocked

\* zf.ToIndex() on the decoded zone file
RunToIndex ==
    /\ op.name = "none"
    /\ zres' = ToIndex(readZonePath(zfile).zf)
    /\ op' = [name |-> "ToIndex", served |-> 0]
    /\ UNCHANGED <<store, pos, neg, now, resp, putlog, tasks, zfile, zdir, upstream, mu>>

NextIndex == RunToIndex

SpecIndex == InitIndex /\ [][NextIndex]_vars

\* ToIndex has run on the zone file and accepted it
IndexAccepted == op.name = "ToIndex" /\ ~zres.err

\* C23: every owner name stored in an index accepted by ToIndex ends with the zone
\* FQDN; a zone file with a record whose dot-terminated name lies outside the zone is
\* rejected as a whole.
C23_NamesInsideZone ==
    /\ IndexAccepted =>
          \A name \in DOMAIN zres.idx.ByName : HasSuffix(name, zres.idx.ZoneFQDN)
    /\ (/\ op.name = "ToIndex"
        /\ \E i \in 1..Len(zfile.zf.Records) :
              /\ HasSuffix(zfile.zf.Records[i].Name, <<".">>)
              /\ ~HasSuffix(ToLower(zfile.zf.Records[i].Name), ToLower(MustFQDN(zfile.zf.Zone))))
       => zres.err

\* the records of the file that went into the RRset (name, t)
Contributing(zf, name, t) ==
    { i \in 1..Len(zf.Records) :
        /\ NormalizeFQDN(zf.Records[i].Name, MustFQDN(zf.Zone)) = name
        /\ ToUpperType(zf.Records[i].Type) = t }

\* the effective TTLs that went into the RRset (name, t): those of its records and,
\* for the NS RRset of the apex, ttl_default of the top-level ns list
EffectiveTTLs(zf, name, t) ==
    { ensureTTL(zf.Records[i].TTL, zf.TTLDefault) : i \in Contributing(zf, name, t) }
    \cup (IF t = TypeNS /\ name = ToLower(MustFQDN(zf.Zone)) /\ Len(zf.NS) > 0
          THEN {ttlOrDef(0, zf.TTLDefault)} ELSE {})

\* C24: in every index produced by ToIndex, the TTL of each A, AAAA, NS, TXT, MX and
\* SRV RRset is the minimum of the effective TTLs (explicit non-zero ttl, else
\* ttl_default) of everything that contributed to that (name, type), whatever the
\* order of the records.
C24_RRSetTTLIsMinimum ==
    IndexAccepted =>
        \A name \in DOMAIN zres.idx.ByName :
            \A t \in DOMAIN zres.idx.ByName[name] \ {TypeCNAME} :
                /\ zres.idx.ByName[name][t].TTL \in EffectiveTTLs(zfile.zf, name, t)
                /\ \A x \in EffectiveTTLs(zfile.zf, name, t) :
                      zres.idx.ByName[name][t].TTL <= x

\* an accepted file whose w A RRset was built from a record with the default TTL
\* followed by one with a smaller explicit TTL, and took the smaller
C24_Witness ==
    /\ IndexAccepted
    /\ Len(zfile.zf.Records) >= 2
    /\ Contributing(zfile.zf, Name(<<"w", "d", "c">>), TypeA) = {1, 2}
    /\ zfile.zf.Records[1].TTL = 0
    /\ zfile.zf.Records[2].TTL = 1
    /\ zres.idx.ByName[Name(<<"w", "d", "c">>)][TypeA].TTL = 1

\* C7: in every ZoneIndex that ToIndex returns without error, no owner name holds a
\* CNAME RRset together with an RRset of any other type, whatever the order of the
\* records, the apex (which holds the NS RRset of the ns list) included.
C7_CnameIsAlone ==
    (op.name = "ToIndex" /\ ~zres.err)
    => \A n \in DOMAIN zres.idx.ByName :
          TypeCNAME \in DOMAIN zres.idx.ByName[n] => DOMAIN zres.idx.ByName[n] = {TypeCNAME}

----------------------------------------------------------------------------
(* Reload coordinator: cmd/smart-dns/main.go, each callback run as a whole *)

\* the largest serial of the zone files written during a run
MaxSerial == 3

SerialIPs == <<"203.0.113.10", "203.0.113.20", "203.0.113.30">>

\* a small zone file: w A <address of the serial>, TTL 2
ReloadZone(zone, serial) ==
    [Zone |-> zone, Serial |-> serial, TTLDefault |-> 2, SOA |-> SOAOf(ZoneD, 1),
     NS |-> <<Name(<<"n", "d", "c">>)>>,
     Records |-> << Record(<<"w">>, "A", 0, <<>>,
                      Strings(<<SerialIPs[((serial - 1) % Len(SerialIPs)) + 1]>>)) >>]

\* zone files that decode and fail validation: no ns list; a CNAME record without value
NoNSZone == [ReloadZone(ZoneD, MaxSerial) EXCEPT !.NS = <<>>]
BadRecordZone ==
    [ReloadZone(ZoneD, MaxSerial) EXCEPT
        !.Records = Append(@, Record(<<"v">>, "CNAME", 0, <<>>, NoValues))]

\* what a changed .dns file may hold when the callback reads it
ReloadContents ==
    { Missing, Garbage, Json(NoNSZone), Json(BadRecordZone) }
    \cup { Json(ReloadZone(z, n)) : z \in {ZoneD, ZoneSD}, n \in 1..MaxSerial }
    \cup { Json(ReloadZone(<<"D", ".", "C">>, MaxSerial)) }

\* the file names (without directory and extension) of Remove and Rename events
RemovedNames == { <<"d", ".", "c">>, <<"s", ".", "d", ".", "c">> }

ReloadRequests ==
    { Request(1, n, TypeA) :
        n \in { Name(<<"w", "d", "c">>), Name(<<"W", "S", "D", "C">>),
                Name(<<"q", "d", "c">>) } }

ReloadStartupDirs ==
    { <<Json(ReloadZone(ZoneD, 1))>>,
      <<Json(ReloadZone(ZoneD, 2)), Json(ReloadZone(ZoneSD, 1))>> }

Init ==
    /\ \E dir \in ReloadStartupDirs :
          /\ ~LoadZonesDir(dir).err
          /\ store = LoadZonesDir(dir).out
    /\ pos = <<>>
    /\ neg = <<>>
    /\ now = 0
    /\ resp = NoMsg
    /\ op = NoOp
    /\ putlog = EmptyMap
    /\ tasks = <<>>
    /\ zdir = <<>>
    /\ upstream = NoUpstream
    /\ mu = Unlocked
    /\ zfile = NoFile
    /\ zres = NoResult

\* the serial installed under exactly this zone FQDN; 0 when the zone is not installed
InstalledSerial(zones, zone) == IF zone \in DOMAIN zones THEN zones[zone].Serial ELSE 0

\* zf.ToIndex() for each of the contents, computed once
IndexOfContent == [content \in ReloadContents |-> ToIndex(readZonePath(content).zf)]

\* OnZoneUpdated with the serial gate off by one: an equal serial is installed too
OnZoneUpdatedEqualSerial(content, order) ==
    LET f == readZonePath(content)
        x == IndexOfContent[content]
        old == GetZoneForNameIn(store, x.idx.ZoneFQDN, order).zi
    IN /\ op' = [name |-> "OnZoneUpdated", content |-> content,
                 oldSerial |-> IF f.err \/ x.err THEN 0
                               ELSE InstalledSerial(store, x.idx.ZoneFQDN)]
       /\ IF f.err \/ x.err
          THEN UNCHANGED <<store, pos, neg>>
          ELSE IF ~IsNil(old) /\ x.idx.Serial < old.Serial
          THEN UNCHANGED <<store, pos, neg>>
          ELSE /\ store' = SwapZone(store, x.idx)
               /\ pos' = InvalidateZone(pos, x.idx.ZoneFQDN)
               /\ neg' = InvalidateZone(neg, x.idx.ZoneFQDN)
       /\ UNCHANGED <<now, resp, putlog, tasks, zfile, zres, zdir, upstream, mu>>

\* OnZoneUpdated dropping the zone of a file it cannot load, instead of keeping it
OnZoneUpdatedDropsOnError(content, order) ==
    LET f == readZonePath(content)
        x == IndexOfContent[content]
        old == GetZoneForNameIn(store, x.idx.ZoneFQDN, order).zi
        named == ToLower(MustFQDN(ValidatedZone(f.zf)))
    IN /\ op' = [name |-> "OnZoneUpdated", content |-> content,
                 oldSerial |-> IF f.err \/ x.err THEN 0
                               ELSE InstalledSerial(store, x.idx.ZoneFQDN)]
       /\ IF f.err \/ x.err
          THEN /\ store' = RemoveZone(store, named)
               /\ pos' = InvalidateZone(pos, named)
               /\ neg' = InvalidateZone(neg, named)
          ELSE IF ~IsNil(old) /\ x.idx.Serial <= old.Serial
          THEN UNCHANGED <<store, pos, neg>>
          ELSE /\ store' = SwapZone(store, x.idx)
               /\ pos' = InvalidateZone(pos, x.idx.ZoneFQDN)
               /\ neg' = InvalidateZone(neg, x.idx.ZoneFQDN)
       /\ UNCHANGED <<now, resp, putlog, tasks, zfile, zres, zdir, upstream, mu>>

\* zoneReloader.OnZoneUpdated(path), content being what path holds when it is read
OnZoneUpdated(content, order) ==
    LET f == readZonePath(content)
        x == IndexOfContent[content]
        old == GetZoneForNameIn(store, x.idx.ZoneFQDN, order).zi
    IN /\ op' = [name |-> "OnZoneUpdated", content |-> content,
                 oldSerial |-> IF f.err \/ x.err THEN 0
                               ELSE InstalledSerial(store, x.idx.ZoneFQDN)]
       /\ IF f.err \/ x.err
          THEN UNCHANGED <<store, pos, neg>>
          ELSE IF ~IsNil(old) /\ x.idx.Serial <= old.Serial
          THEN UNCHANGED <<store, pos, neg>>
          ELSE /\ store' = SwapZone(store, x.idx)
               /\ pos' = InvalidateZone(pos, x.idx.ZoneFQDN)
               /\ neg' = InvalidateZone(neg, x.idx.ZoneFQDN)
       /\ UNCHANGED <<now, resp, putlog, tasks, zfile, zres, zdir, upstream, mu>>

\* zoneReloader.OnZoneRemoved(zoneName)
OnZoneRemoved(zoneName) ==
    /\ store' = RemoveZone(store, zoneName \o <<".">>)
    /\ pos' = InvalidateZone(pos, zoneName \o <<".">>)
    /\ neg' = InvalidateZone(neg, zoneName \o <<".">>)
    /\ op' = [name |-> "OnZoneRemoved", zone |-> zoneName]
    /\ UNCHANGED <<now, resp, putlog, tasks, zfile, zres, zdir, upstream, mu>>

\* Resolver.ServeDNS, the whole handler, in the reload specification
ServeReload(req, order) ==
    LET r == ServeDNSResult(store, pos, neg, now, req, order)
    IN /\ pos' = r.pos
       /\ neg' = r.neg
       /\ resp' = r.msg
       /\ op' = [name |-> "ServeDNS", req |-> req]
       /\ UNCHANGED <<store, now, putlog, tasks, zfile, zres, zdir, upstream, mu>>

Next ==
    \/ \E content \in ReloadContents, order \in Orders(DOMAIN store) :
          OnZoneUpdated(content, order)
    \/ \E zoneName \in RemovedNames : OnZoneRemoved(zoneName)
    \/ \E req \in ReloadRequests, order \in Orders(DOMAIN store) : ServeReload(req, order)

Spec == Init /\ [][Next]_vars

----------------------------------------------------------------------------
(* Properties of the reload coordinator and the store, under Spec *)

\* the content cannot be read, is not JSON, or fails validation
ReloadFails(content) == readZonePath(content).err \/ ToIndex(readZonePath(content).zf).err

NewIndex(content) == ToIndex(readZonePath(content).zf).idx

\* the entries of a cache whose key name does not end with zone
EntriesOutside(c, zone) == LET Outside(e) == ~HasSuffix(e.Key.Name, zone) IN SelectSeq(c, Outside)

\* C1: OnZoneUpdated for a zone file that parses and validates installs the new index
\* (SwapZone, then InvalidateZone of its zone FQDN) if and only if its serial is
\* strictly greater than the serial of the index installed for that zone; with an
\* equal or lesser serial the store and both caches stay exactly as they were.
C1_SerialGatedInstall ==
    [][ (/\ op'.name = "OnZoneUpdated"
         /\ ~ReloadFails(op'.content)
         /\ NewIndex(op'.content).ZoneFQDN \in DOMAIN store)
        => LET new == NewIndex(op'.content)
           IN IF new.Serial > store[new.ZoneFQDN].Serial
              THEN /\ store' = [store EXCEPT ![new.ZoneFQDN] = new]
                   /\ pos' = EntriesOutside(pos, new.ZoneFQDN)
                   /\ neg' = EntriesOutside(neg, new.ZoneFQDN)
              ELSE /\ store' = store
                   /\ pos' = pos
                   /\ neg' = neg ]_vars

\* C1 witness: a reload with a greater serial has replaced an installed index
C1_Witness ==
    /\ op.name = "OnZoneUpdated"
    /\ ~ReloadFails(op.content)
    /\ op.oldSerial > 0
    /\ NewIndex(op.content).Serial > op.oldSerial
    /\ store[NewIndex(op.content).ZoneFQDN] = NewIndex(op.content)

\* C3: when the changed zone file cannot be read, fails JSON decoding or fails
\* validation, OnZoneUpdated changes nothing: the store and every positive and
\* negative cache entry are as before, so queries see the index installed before.
C3_FailedReloadKeepsLastGood ==
    [][ (op'.name = "OnZoneUpdated" /\ ReloadFails(op'.content))
        => /\ store' = store
           /\ pos' = pos
           /\ neg' = neg
           /\ \A req \in ReloadRequests :
                 GetZoneForName(store', req.Question[1].Name)
                    = GetZoneForName(store, req.Question[1].Name) ]_vars

\* C3 witness: a zone file that decodes and fails validation was reloaded while the
\* zone it names was installed and both caches held entries
C3_Witness ==
    /\ op.name = "OnZoneUpdated"
    /\ op.content.kind = "json"
    /\ ReloadFails(op.content)
    /\ ZoneD \in DOMAIN store
    /\ pos # <<>>
    /\ neg # <<>>

\* the names GetZoneForName is probed with
ProbeNames ==
    { Name(<<"d", "c">>), Name(<<"w", "d", "c">>), Name(<<"W", "S", "D", "C">>),
      Name(<<"s", "d", "c">>), Name(<<"S", "d", "C">>), Name(<<"q", "e">>),
      Name(<<"c">>), <<".">> }

\* the installed zone FQDNs that are a suffix of the lowercased name
SuffixZones(zones, qname) == {z \in DOMAIN zones : HasSuffix(ToLower(qname), z)}

\* C6: GetZoneForName(qname) returns the installed index whose zone FQDN is the
\* longest among the installed zone FQDNs that are a suffix of the lowercased qname,
\* with that FQDN; it returns no index and an empty zone name exactly when no
\* installed zone FQDN is a suffix of qname.  This holds for every order in which the
\* map of zones is ranged over.
C6_LongestSuffixZone ==
    \A qname \in ProbeNames : \A order \in Orders(DOMAIN store) :
        LET got == GetZoneForNameIn(store, qname, order)
            cands == SuffixZones(store, qname)
        IN /\ (cands = {}) <=> (IsNil(got.zi) /\ got.zone = <<>>)
           /\ cands # {} =>
                /\ got.zone \in cands
                /\ \A z \in cands : Len(z) <= Len(got.zone)
                /\ got.zi = store[got.zone]

\* C6 witness: a zone and a zone below it are both installed, and a name of the lower
\* zone, asked in upper case, is served from the lower zone
C6_Witness ==
    /\ {ZoneD, ZoneSD} \subseteq DOMAIN store
    /\ op.name = "ServeDNS"
    /\ op.req.Question[1].Name = Name(<<"W", "S", "D", "C">>)
    /\ GetZoneForName(store, op.req.Question[1].Name).zone = ZoneSD
    /\ resp.Rcode = RcodeSuccess

----------------------------------------------------------------------------
(* Startup on a zones directory: zone.LoadZonesDir as main calls it *)

\* the most .dns files a zones directory holds
MaxFiles == 3

\* what a .dns file of the directory may hold
DirContents ==
    { Garbage, Json(NoNSZone), Json(ReloadZone(ZoneD, 1)), Json(ReloadZone(ZoneD, 2)),
      Json(ReloadZone(ZoneSD, 1)) }

ZoneDirs == UNION { [1..n -> DirContents] : n \in 0..MaxFiles }

InitLoad ==
    /\ zdir \in ZoneDirs
    /\ store = EmptyMap
    /\ op = NoOp
    /\ pos = <<>>
    /\ neg = <<>>
    /\ now = 0
    /\ resp = NoMsg
    /\ putlog = EmptyMap
    /\ tasks = <<>>
    /\ zfile = NoFile
    /\ zres = NoResult
    /\ upstream = NoUpstream
    /\ mu = Unlocked

\* main: zone.LoadZonesDir(*zonesDir), then SwapZone of every zone of the map; on an
\* error the process exits with nothing installed
RunLoadZonesDir ==
    /\ op.name = "none"
    /\ LET r == LoadZonesDir(zdir)
       IN /\ store' = IF r.err THEN store ELSE r.out
          /\ op' = [name |-> "LoadZonesDir", err |-> r.err]
    /\ UNCHANGED <<pos, neg, now, resp, putlog, tasks, zfile, zres, zdir, upstream, mu>>

NextLoad == RunLoadZonesDir

SpecLoad == InitLoad /\ [][NextLoad]_vars

\* the files of the directory that parse and validate
ValidEntries(dir) == { i \in 1..Len(dir) : ~ReloadFails(dir[i]) }

\* C14: LoadZonesDir fails exactly when zero zone files parse and validate; with at
\* least one valid .dns file it returns a map with an index for each valid file, and a
\* malformed or invalid file among them does not make the load fail.
C14_LoadFailsOnlyWithoutZones ==
    op.name = "LoadZonesDir" =>
        /\ op.err <=> ValidEntries(zdir) = {}
        /\ \A i \in ValidEntries(zdir) : NewIndex(zdir[i]).ZoneFQDN \in DOMAIN store

----------------------------------------------------------------------------
(* The server run with --resolver: names outside the zones go to the name servers *)

\* Resolver.RootServers: the first two of defaultRootServers
RootServers == <<"198.41.0.4", "199.9.14.201">>

\* the address of n.e., the name server of the zone e.
ServerE == "203.0.113.53"

NameQE == Name(<<"q", "e">>)
NameRE == Name(<<"r", "e">>)
NameNE == Name(<<"n", "e">>)
ZoneE == Name(<<"e">>)

RR(name, type, ttl, data) == [Name |-> name, Rrtype |-> type, Ttl |-> ttl, Data |-> data]

\* a reply of a name server
UpMsg(rcode, answer, ns, extra) ==
    [Id |-> 7, Rcode |-> rcode, Authoritative |-> FALSE, RecursionAvailable |-> FALSE,
     Question |-> <<>>, Answer |-> answer, Ns |-> ns, Extra |-> extra]

Reply(m) == [err |-> FALSE, truncated |-> FALSE, msg |-> m]

Referral == UpMsg(RcodeSuccess, <<>>, <<RR(ZoneE, TypeNS, 9, NameNE)>>, <<>>)
ReferralWithGlue(ip) == [Referral EXCEPT !.Extra = <<RR(NameNE, TypeA, 9, ip)>>]
AnswerQE == UpMsg(RcodeSuccess, <<RR(NameQE, TypeA, 5, "203.0.113.99")>>, <<>>, <<>>)
SOAOfE == RR(ZoneE, TypeSOA, 4, [Ns |-> NameNE, Mbox |-> NameNE, Serial |-> 1, Refresh |-> 0,
                                 Retry |-> 0, Expire |-> 0, Minttl |-> 4])

\* no name server is reachable
WorldDead == EmptyMap

\* the first root is down; the second refers to n.e. with glue; n.e. answers
WorldAnswer ==
    (<<"udp", RootServers[2], NameQE, TypeA>> :> Reply(ReferralWithGlue(ServerE)))
    @@ (<<"udp", ServerE, NameQE, TypeA>> :> Reply(AnswerQE))

\* the root refers to n.e. without glue, and nobody knows the address of n.e.
WorldNoGlue == (<<"udp", RootServers[1], NameQE, TypeA>> :> Reply(Referral))

\* the root refers without glue and answers the question for the address of n.e.
WorldGlueLookup ==
    (<<"udp", RootServers[1], NameQE, TypeA>> :> Reply(Referral))
    @@ (<<"udp", RootServers[1], NameNE, TypeA>> :>
            Reply(UpMsg(RcodeSuccess, <<RR(NameNE, TypeA, 9, ServerE)>>, <<>>, <<>>)))
    @@ (<<"udp", ServerE, NameQE, TypeA>> :> Reply(AnswerQE))

\* a lame delegation: the name server of e. refers to itself, again and again
WorldReferralLoop ==
    (<<"udp", RootServers[1], NameQE, TypeA>> :> Reply(ReferralWithGlue(ServerE)))
    @@ (<<"udp", ServerE, NameQE, TypeA>> :> Reply(ReferralWithGlue(ServerE)))

\* the name does not exist
WorldNameError ==
    (<<"udp", RootServers[1], NameQE, TypeA>> :>
        Reply(UpMsg(RcodeNameError, <<>>, <<SOAOfE>>, <<>>)))

\* the name exists without the type: NOERROR, no answer, the SOA alone in authority
WorldNoData ==
    (<<"udp", RootServers[1], NameQE, TypeA>> :>
        Reply(UpMsg(RcodeSuccess, <<>>, <<SOAOfE>>, <<>>)))

\* q.e. is an alias of r.e.; the reply to the first question holds the CNAME alone
WorldCname ==
    (<<"udp", RootServers[1], NameQE, TypeA>> :>
        Reply(UpMsg(RcodeSuccess, <<RR(NameQE, TypeCNAME, 3, NameRE)>>, <<>>, <<>>)))
    @@ (<<"udp", RootServers[1], NameRE, TypeA>> :>
        Reply(UpMsg(RcodeSuccess, <<RR(NameRE, TypeA, 5, "203.0.113.98")>>, <<>>, <<>>)))

\* the reply over UDP is truncated and the one over TCP is whole
WorldTruncated ==
    (<<"udp", RootServers[1], NameQE, TypeA>> :>
        [err |-> FALSE, truncated |-> TRUE, msg |-> UpMsg(RcodeSuccess, <<>>, <<>>, <<>>)])
    @@ (<<"tcp", RootServers[1], NameQE, TypeA>> :> Reply(AnswerQE))

\* q.e. and r.e. are aliases of each other
WorldCnameLoop ==
    (<<"udp", RootServers[1], NameQE, TypeA>> :>
        Reply(UpMsg(RcodeSuccess, <<RR(NameQE, TypeCNAME, 3, NameRE)>>, <<>>, <<>>)))
    @@ (<<"udp", RootServers[1], NameRE, TypeA>> :>
        Reply(UpMsg(RcodeSuccess, <<RR(NameRE, TypeCNAME, 3, NameQE)>>, <<>>, <<>>)))

HostLabels ==
    <<"0", "1", "2", "3", "4", "5", "6", "7", "8", "9", "a", "b", "c", "d", "f", "g">>

\* the i-th name of a chain of aliases under e.; the 0-th is q.e.
ChainHost(i) == IF i = 0 THEN NameQE ELSE Name(<<HostLabels[i], "e">>)

\* q.e. heads a chain of n aliases, one reply per alias, whose last name has an address:
\* the reply with the address is the (n+1)-th
WorldCnameChain(n) ==
    [q \in { <<"udp", RootServers[1], ChainHost(i), TypeA>> : i \in 0..n } |->
        LET i == CHOOSE j \in 0..n : ChainHost(j) = q[3]
        IN IF i < n
           THEN Reply(UpMsg(RcodeSuccess,
                            <<RR(ChainHost(i), TypeCNAME, 3, ChainHost(i + 1))>>, <<>>, <<>>))
           ELSE Reply(UpMsg(RcodeSuccess,
                            <<RR(ChainHost(i), TypeA, 5, "203.0.113.97")>>, <<>>, <<>>))]

\* the worlds a run may be in, by name
Worlds ==
    { "dead", "answer", "noglue", "gluelookup", "referralloop", "nameerror", "nodata",
      "cname", "truncated", "cnameloop", "chain15", "chain16" }

WorldOf(w) ==
    CASE w = "dead" -> WorldDead
      [] w = "answer" -> WorldAnswer
      [] w = "noglue" -> WorldNoGlue
      [] w = "gluelookup" -> WorldGlueLookup
      [] w = "referralloop" -> WorldReferralLoop
      [] w = "nameerror" -> WorldNameError
      [] w = "nodata" -> WorldNoData
      [] w = "cname" -> WorldCname
      [] w = "truncated" -> WorldTruncated
      [] w = "cnameloop" -> WorldCnameLoop
      [] w = "chain15" -> WorldCnameChain(maxDepth - 1)
      [] w = "chain16" -> WorldCnameChain(maxDepth)
      [] OTHER -> EmptyMap

ResolveRequests ==
    { Request(id, n, t) :
        id \in {1, 2},
        n \in { NameQE, Name(<<"Q", "E">>), Name(<<"w", "d", "c">>), Name(<<"w", "s", "d", "c">>) },
        t \in { TypeA, TypeANY } }

InitResolve ==
    /\ upstream \in Worlds
    /\ mu = Unlocked
    /\ store = LoadZonesDir(<<Json(ReadmeZone), Json(ReloadZone(ZoneSD, 1))>>).out
    /\ pos = <<>>
    /\ neg = <<>>
    /\ now = 0
    /\ resp = NoMsg
    /\ op = [name |-> "none", served |-> 0]
    /\ putlog = EmptyMap
    /\ tasks = <<>>
    /\ zfile = NoFile
    /\ zres = NoResult
    /\ zdir = <<>>

\* Resolver.ServeDNS, the whole handler, EnableResolver being set
ServeResolve(req, order) ==
    LET r == ServeDNSWith(store, pos, neg, now, req, order, TRUE, WorldOf(upstream), RootServers)
    IN /\ op.served < MaxQueries
       /\ pos' = r.pos
       /\ neg' = r.neg
       /\ resp' = r.msg
       /\ op' = [name |-> "ServeDNS", req |-> req, served |-> op.served + 1,
                 resolved |-> r.resolved]
       /\ UNCHANGED <<store, now, putlog, tasks, zfile, zres, zdir, upstream, mu>>

NextResolve == \E req \in ResolveRequests, order \in Orders(DOMAIN store) : ServeResolve(req, order)

SpecResolve == InitResolve /\ [][NextResolve]_vars

\* C13: every query with qtype ANY is answered NOERROR with AA=1 and an empty answer
\* section; its authority section holds exactly the SOA of the longest-suffix zone
\* enclosing qname when there is one and is empty otherwise; neither cache is read or
\* written and the iterative resolver is not invoked.
C13_AnyIsSOAOnly ==
    [][ (op'.name = "ServeDNS" /\ op'.req.Question[1].Qtype = TypeANY)
        => LET zones == SuffixZones(store, ToLower(Fqdn(op'.req.Question[1].Name)))
           IN /\ resp'.Rcode = RcodeSuccess
              /\ resp'.Authoritative
              /\ resp'.Answer = <<>>
              /\ IF zones = {} THEN resp'.Ns = <<>>
                 ELSE \E z \in zones :
                        /\ \A y \in zones : Len(y) <= Len(z)
                        /\ resp'.Ns = <<makeSOA(store[z])>>
              /\ pos' = pos
              /\ neg' = neg
              /\ ~op'.resolved ]_vars

\* C13 witness: an ANY query for a name of the zone s.d.c., which lies inside d.c.,
\* was answered with the SOA of s.d.c. while the positive cache held an answer
C13_Witness ==
    /\ op.name = "ServeDNS"
    /\ op.req.Question[1].Qtype = TypeANY
    /\ op.req.Question[1].Name = Name(<<"w", "s", "d", "c">>)
    /\ resp.Ns = <<makeSOA(store[ZoneSD])>>
    /\ pos # <<>>

\* C15: when the iterative resolver is enabled and the resolution of an out-of-zone
\* name fails (no server answers, no glue, depth limit), the server writes no response
\* for that query.
C15_FailedResolutionWritesNothing ==
    (/\ op.name = "ServeDNS"
     /\ op.resolved
     /\ iterativeResolve(WorldOf(upstream), RootServers, Fqdn(op.req.Question[1].Name),
                         op.req.Question[1].Qtype).nil)
    => resp = NoMsg

----------------------------------------------------------------------------
(* The response caches driven through their own operations *)

\* the last instant of a run of the cache specification
MaxTime == 2

CacheNames == { Name(<<"w", "d", "c">>), Name(<<"W", "D", "C">>), Name(<<"q", "e">>) }
CacheTypes == { TypeA }
CacheData == { "m1", "m2" }
CacheTTLs == { 1, 2 }
CacheRcodes == { RcodeNameError }
CacheZones == { ZoneD, Name(<<"D", "C">>), Name(<<"e">>) }

InitCache ==
    /\ pos = <<>>
    /\ neg = <<>>
    /\ now = 0
    /\ putlog = EmptyMap
    /\ op = NoOp
    /\ store = EmptyMap
    /\ resp = NoMsg
    /\ tasks = <<>>
    /\ zdir = <<>>
    /\ upstream = NoUpstream
    /\ mu = Unlocked
    /\ zfile = NoFile
    /\ zres = NoResult

\* the key lru.Cache.Add evicts when k is added to c
Evicted(c, k, size) == IF ~LruContains(c, k) /\ Len(c) >= size THEN {c[1].Key} ELSE {}

\* c.PutPositive(name, qtype, data, ttl)
CachePutPositive(name, qtype, data, ttl) ==
    /\ pos' = PutPositive(pos, name, qtype, data, ttl, now)
    /\ putlog' = MapPut([k \in DOMAIN putlog \ Evicted(pos, key(name, qtype), PosCapacity)
                           |-> putlog[k]],
                        [Name |-> ToLower(name), Type |-> qtype],
                        [data |-> data, at |-> now, ttl |-> ttl])
    /\ op' = [name |-> "PutPositive"]
    /\ UNCHANGED <<neg, now, store, resp, tasks, zfile, zres, zdir, upstream, mu>>

\* c.GetPositive(name, qtype)
CacheGetPositive(name, qtype) ==
    LET r == GetPositive(pos, name, qtype, now)
    IN /\ pos' = r.cache
       /\ op' = [name |-> "GetPositive", qname |-> name, qtype |-> qtype,
                 ok |-> r.ok, data |-> r.data]
       /\ UNCHANGED <<neg, now, putlog, store, resp, tasks, zfile, zres, zdir, upstream, mu>>

\* c.PutNegative(name, qtype, rcode, ttl)
CachePutNegative(name, qtype, rcode, ttl) ==
    /\ neg' = PutNegative(neg, name, qtype, rcode, ttl, now)
    /\ op' = [name |-> "PutNegative"]
    /\ UNCHANGED <<pos, now, putlog, store, resp, tasks, zfile, zres, zdir, upstream, mu>>

\* c.GetNegative(name, qtype, rcode)
CacheGetNegative(name, qtype, rcode) ==
    LET r == GetNegative(neg, name, qtype, rcode, now)
    IN /\ neg' = r.cache
       /\ op' = [name |-> "GetNegative", qname |-> name, qtype |-> qtype, ok |-> r.ok]
       /\ UNCHANGED <<pos, now, putlog, store, resp, tasks, zfile, zres, zdir, upstream, mu>>

\* an entry under the zone that a Get would return at time t
LiveUnder(c, zone, t) ==
    \E i \in 1..Len(c) : HasSuffix(c[i].Key.Name, ToLower(zone)) /\ t < c[i].ExpireAt

\* c.InvalidateZone(zone)
CacheInvalidateZone(zone) ==
    /\ pos' = InvalidateZone(pos, zone)
    /\ neg' = InvalidateZone(neg, zone)
    /\ putlog' = [k \in {k \in DOMAIN putlog : ~HasSuffix(k.Name, ToLower(zone))} |-> putlog[k]]
    /\ op' = [name |-> "InvalidateZone", zone |-> zone,
              hadPos |-> LiveUnder(pos, zone, now), hadNeg |-> LiveUnder(neg, zone, now)]
    /\ UNCHANGED <<now, store, resp, tasks, zfile, zres, zdir, upstream, mu>>

\* a second of time.Now() passes
Tick ==
    /\ now < MaxTime
    /\ now' = now + 1
    /\ op' = [name |-> "Tick"]
    /\ UNCHANGED <<pos, neg, putlog, store, resp, tasks, zfile, zres, zdir, upstream, mu>>

NextCache ==
    \/ \E n \in CacheNames, t \in CacheTypes, d \in CacheData, ttl \in CacheTTLs :
          CachePutPositive(n, t, d, ttl)
    \/ \E n \in CacheNames, t \in CacheTypes : CacheGetPositive(n, t)
    \/ \E n \in CacheNames, t \in CacheTypes, rc \in CacheRcodes, ttl \in CacheTTLs :
          CachePutNegative(n, t, rc, ttl)
    \/ \E n \in CacheNames, t \in CacheTypes, rc \in CacheRcodes : CacheGetNegative(n, t, rc)
    \/ \E z \in CacheZones : CacheInvalidateZone(z)
    \/ Tick

SpecCache == InitCache /\ [][NextCache]_vars

\* C4: right after InvalidateZone(z), GetPositive(n, t) misses and GetNegative(n, t, rc)
\* returns false for every name n whose lowercase form ends with lowercase z, for
\* every qtype t and rcode rc.
C4_InvalidatedZoneMisses ==
    op.name = "InvalidateZone" =>
        \A n \in CacheNames : HasSuffix(ToLower(n), ToLower(op.zone)) =>
            \A t \in CacheTypes :
                /\ ~GetPositive(pos, n, t, now).ok
                /\ \A rc \in CacheRcodes : ~GetNegative(neg, n, t, rc, now).ok

\* C4 witness: InvalidateZone of a zone named in upper case has run while both caches
\* held an unexpired entry under it, and an entry of another zone is still cached
C4_Witness ==
    /\ op.name = "InvalidateZone"
    /\ op.zone = Name(<<"D", "C">>)
    /\ op.hadPos
    /\ op.hadNeg
    /\ pos # <<>>

\* C5: after PutPositive(name, qtype, v, ttl), with no eviction or invalidation since,
\* GetPositive(name', qtype) for a name' equal to name ignoring case returns v while
\* now < put-time + ttl; at or after that instant it misses and the read removes the
\* entry.
C5_PutGetRoundTrip ==
    [][ (/\ op'.name = "GetPositive"
         /\ [Name |-> ToLower(op'.qname), Type |-> op'.qtype] \in DOMAIN putlog)
        => LET k == [Name |-> ToLower(op'.qname), Type |-> op'.qtype]
           IN IF now < putlog[k].at + putlog[k].ttl
              THEN op'.ok /\ op'.data = putlog[k].data
              ELSE /\ ~op'.ok
                   /\ \A i \in 1..Len(pos') : pos'[i].Key # k ]_vars

\* C5 witness: a value put under a lowercase name was read back under the upper-case
\* name, after time had passed and before its expiry
C5_Witness ==
    /\ op.name = "GetPositive"
    /\ op.qname = Name(<<"W", "D", "C">>)
    /\ op.ok
    /\ LET k == [Name |-> ToLower(op.qname), Type |-> op.qtype]
       IN /\ k \in DOMAIN putlog
          /\ putlog[k].at < now
          /\ now < putlog[k].at + putlog[k].ttl

----------------------------------------------------------------------------
(* Reload callbacks as goroutines: watch.WatchDir starts one timer per filesystem
   event, and each callback runs its statements interleaved with the others *)

\* the filesystem events of a run
MaxEvents == 3

\* what an editor leaves in the watched file d.c.dns
WrittenContents == { Garbage } \cup { Json(ReloadZone(ZoneD, n)) : n \in 1..MaxSerial }

WatchedName == <<"d", ".", "c">>

ConcRequest == Request(1, Name(<<"w", "d", "c">>), TypeA)

\* a goroutine: a reload callback (ev "write" or "remove") with the file content it
\* read, or a ServeDNS call (ev "query") with the index it got from the store (zi), the
\* cached message it got from GetPositive (v, 0: none) and the message it allocated
\* with resp.Copy() for the cache (copy).  Messages are shared by reference: the
\* positive cache holds, as its data, the number of the task that allocated the message.
Task(pc, ev, content) ==
    [pc |-> pc, ev |-> ev, content |-> content, zi |-> NilIndex, v |-> 0, copy |-> NoMsg]

InitConc ==
    /\ store = LoadZonesDir(<<Json(ReloadZone(ZoneD, 1))>>).out
    /\ zfile = Json(ReloadZone(ZoneD, 1))
    /\ tasks = <<>>
    /\ zdir = <<>>
    /\ upstream = NoUpstream
    /\ mu = Unlocked
    /\ pos = <<>>
    /\ neg = <<>>
    /\ now = 0
    /\ resp = NoMsg
    /\ op = NoOp
    /\ putlog = EmptyMap
    /\ zres = NoResult

\* a Write or Create event of the watched file: the timer of its callback is started
FsWrite(content) ==
    /\ Len(tasks) < MaxEvents
    /\ zfile' = content
    /\ tasks' = Append(tasks, Task("timer", "write", Missing))
    /\ op' = [name |-> "FsWrite"]
    /\ UNCHANGED <<store, pos, neg, now, resp, putlog, zres, zdir, upstream, mu>>

\* a Remove or Rename event of the watched file
FsRemove ==
    /\ Len(tasks) < MaxEvents
    /\ zfile' = Missing
    /\ tasks' = Append(tasks, Task("timer", "remove", Missing))
    /\ op' = [name |-> "FsRemove"]
    /\ UNCHANGED <<store, pos, neg, now, resp, putlog, zres, zdir, upstream, mu>>

\* the timer fires: OnZoneUpdated reads the file as it is now and builds the index
ReloadRead(i) ==
    /\ tasks[i].pc = "timer"
    /\ tasks[i].ev = "write"
    /\ LET f == readZonePath(zfile)
           x == IndexOfContent[zfile]
       IN tasks' = [tasks EXCEPT ![i] =
                       IF f.err \/ x.err THEN Task("done", "write", zfile)
                       ELSE Task("get", "write", zfile)]
    /\ op' = [name |-> "ReloadRead"]
    /\ UNCHANGED <<store, pos, neg, now, resp, putlog, zfile, zres, zdir, upstream, mu>>

\* old, _ := GetZoneForName(zi.ZoneFQDN) and the serial test on it
ReloadGet(i, order) ==
    /\ tasks[i].pc = "get"
    /\ LET x == IndexOfContent[tasks[i].content]
           old == GetZoneForNameIn(store, x.idx.ZoneFQDN, order).zi
       IN tasks' = [tasks EXCEPT ![i].pc =
                       IF ~IsNil(old) /\ x.idx.Serial <= old.Serial THEN "done" ELSE "swap"]
    /\ op' = [name |-> "ReloadGet"]
    /\ UNCHANGED <<store, pos, neg, now, resp, putlog, zfile, zres, zdir, upstream, mu>>

\* r.store.SwapZone(zi)
ReloadSwap(i) ==
    /\ tasks[i].pc = "swap"
    /\ store' = SwapZone(store, IndexOfContent[tasks[i].content].idx)
    /\ tasks' = [tasks EXCEPT ![i].pc = "invalidate"]
    /\ op' = [name |-> "ReloadSwap"]
    /\ UNCHANGED <<pos, neg, now, resp, putlog, zfile, zres, zdir, upstream, mu>>

\* the timer fires: OnZoneRemoved removes the zone named by the file
ReloadRemove(i) ==
    /\ tasks[i].pc = "timer"
    /\ tasks[i].ev = "remove"
    /\ store' = RemoveZone(store, WatchedName \o <<".">>)
    /\ tasks' = [tasks EXCEPT ![i].pc = "invalidate"]
    /\ op' = [name |-> "ReloadRemove"]
    /\ UNCHANGED <<pos, neg, now, resp, putlog, zfile, zres, zdir, upstream, mu>>

\* r.caches.InvalidateZone, the last statement of both callbacks
ReloadInvalidate(i) ==
    /\ tasks[i].pc = "invalidate"
    /\ LET zone == IF tasks[i].ev = "write"
                   THEN IndexOfContent[tasks[i].content].idx.ZoneFQDN
                   ELSE WatchedName \o <<".">>
       IN /\ pos' = InvalidateZone(pos, zone)
          /\ neg' = InvalidateZone(neg, zone)
    /\ tasks' = [tasks EXCEPT ![i].pc = "done"]
    /\ op' = [name |-> "ReloadInvalidate"]
    /\ UNCHANGED <<store, now, resp, putlog, zfile, zres, zdir, upstream, mu>>

\* the request of the i-th goroutine: its message id is i
RequestOf(i) == Request(i, ConcRequest.Question[1].Name, ConcRequest.Question[1].Qtype)

\* a query arrives and ServeDNS runs up to r.Cache.GetPositive(qname, qtype)
QueryStart ==
    LET i == Len(tasks) + 1
        q == RequestOf(i).Question[1]
        hit == GetPositive(pos, Fqdn(q.Name), q.Qtype, now)
    IN /\ Len(tasks) < MaxEvents
       /\ pos' = hit.cache
       /\ tasks' = Append(tasks, [Task(IF hit.ok THEN "setid" ELSE "zone", "query", Missing)
                                    EXCEPT !.v = IF hit.ok THEN hit.data ELSE 0])
       /\ op' = [name |-> "QueryStart"]
       /\ UNCHANGED <<store, neg, now, resp, putlog, zfile, zres, zdir, upstream, mu>>

\* v.Id = req.Id; v.RecursionAvailable = false, on the message the cache handed out
QuerySetId(i) ==
    /\ tasks[i].pc = "setid"
    /\ tasks' = [tasks EXCEPT ![i].pc = "write",
                              ![tasks[i].v].copy.Id = RequestOf(i).Id,
                              ![tasks[i].v].copy.RecursionAvailable = FALSE]
    /\ op' = [name |-> "QuerySetId"]
    /\ UNCHANGED <<store, pos, neg, now, resp, putlog, zfile, zres, zdir, upstream, mu>>

\* w.WriteMsg(v)
QueryWriteHit(i) ==
    /\ tasks[i].pc = "write"
    /\ resp' = tasks[tasks[i].v].copy
    /\ tasks' = [tasks EXCEPT ![i].pc = "done"]
    /\ op' = [name |-> "QueryWriteHit", id |-> RequestOf(i).Id]
    /\ UNCHANGED <<store, pos, neg, now, putlog, zfile, zres, zdir, upstream, mu>>

\* zi, _ := r.Zones.GetZoneForName(qname); a name outside every zone is answered at once
QueryGetZone(i, order) ==
    LET req == RequestOf(i)
        zi == GetZoneForNameIn(store, Fqdn(req.Question[1].Name), order).zi
    IN /\ tasks[i].pc = "zone"
       /\ IF IsNil(zi)
          THEN /\ resp' = [SetReply(req) EXCEPT !.Authoritative = TRUE,
                                                !.Rcode = RcodeNameError]
               /\ tasks' = [tasks EXCEPT ![i].pc = "done"]
          ELSE /\ resp' = resp
               /\ tasks' = [tasks EXCEPT ![i].pc = "answer", ![i].zi = zi]
       /\ op' = [name |-> "QueryGetZone"]
       /\ UNCHANGED <<store, pos, neg, now, putlog, zfile, zres, zdir, upstream, mu>>

\* r.lookup on the index the goroutine holds, the cache Put and w.WriteMsg(resp)
QueryAnswer(i) ==
    LET req == RequestOf(i)
        qname == Fqdn(req.Question[1].Name)
        qtype == req.Question[1].Qtype
        zi == tasks[i].zi
        l == lookup(zi, qname, qtype)
        answered == [SetReply(req) EXCEPT !.Authoritative = TRUE, !.Rcode = l.rcode,
                                          !.Answer = l.ans, !.Extra = l.addl]
    IN /\ tasks[i].pc = "answer"
       /\ IF l.rcode = RcodeSuccess /\ Len(l.ans) > 0
          THEN /\ pos' = PutPositive(pos, qname, qtype, i, l.ttl, now)
               /\ neg' = neg
               /\ resp' = answered
               /\ tasks' = [tasks EXCEPT ![i].pc = "done", ![i].copy = answered]
          ELSE IF l.rcode # RcodeSuccess
          THEN /\ pos' = pos
               /\ neg' = PutNegative(neg, qname, qtype, l.rcode, zi.SOA.NegativeTTL, now)
               /\ resp' = [answered EXCEPT !.Ns = <<makeSOA(zi)>>]
               /\ tasks' = [tasks EXCEPT ![i].pc = "done"]
          ELSE /\ pos' = pos
               /\ neg' = neg
               /\ resp' = answered
               /\ tasks' = [tasks EXCEPT ![i].pc = "done"]
       /\ op' = [name |-> "QueryAnswer"]
       /\ UNCHANGED <<store, now, putlog, zfile, zres, zdir, upstream, mu>>

NextConc ==
    \/ \E content \in WrittenContents : FsWrite(content)
    \/ FsRemove
    \/ \E i \in 1..Len(tasks) : ReloadRead(i)
    \/ \E i \in 1..Len(tasks), order \in Orders(DOMAIN store) : ReloadGet(i, order)
    \/ \E i \in 1..Len(tasks) : ReloadSwap(i)
    \/ \E i \in 1..Len(tasks) : ReloadRemove(i)
    \/ \E i \in 1..Len(tasks) : ReloadInvalidate(i)
    \/ QueryStart
    \/ \E i \in 1..Len(tasks) : QuerySetId(i)
    \/ \E i \in 1..Len(tasks) : QueryWriteHit(i)
    \/ \E i \in 1..Len(tasks), order \in Orders(DOMAIN store) : QueryGetZone(i, order)
    \/ \E i \in 1..Len(tasks) : QueryAnswer(i)

SpecConc == InitConc /\ [][NextConc]_vars

\* C2: under any interleaving of reload callbacks and queries, the serial of the index
\* installed for a zone never decreases from one state of the store to the next.
C2_SerialNeverDecreases ==
    [][ \A z \in DOMAIN store \cap DOMAIN store' :
            store'[z].Serial >= store[z].Serial ]_vars

\* no reload callback stands between its SwapZone and the end of its InvalidateZone
ReloadsSettled == \A i \in 1..Len(tasks) : tasks[i].pc # "invalidate"

\* the message was built from the index now installed for the zone of the request
BuiltFromInstalled(m) ==
    LET q == ConcRequest.Question[1]
        zi == GetZoneForName(store, Fqdn(q.Name)).zi
    IN ~IsNil(zi) /\ m.Answer = lookup(zi, Fqdn(q.Name), q.Qtype).ans

\* C17: a stale answer can be served from the cache only between SwapZone and the end
\* of InvalidateZone: a query that starts while no reload is in that window and hits
\* the positive cache gets a message built from the installed index, also when other
\* queries were in flight during the reload.
C17_NoStaleHitAfterInvalidate ==
    [][ (/\ Len(tasks') = Len(tasks) + 1
         /\ tasks'[Len(tasks')].ev = "query"
         /\ tasks'[Len(tasks')].v # 0
         /\ ReloadsSettled
         /\ ~IsNil(GetZoneForName(store, Fqdn(ConcRequest.Question[1].Name)).zi))
        => BuiltFromInstalled(tasks[tasks'[Len(tasks')].v].copy) ]_vars

\* C18: on a positive-cache hit the response written for a request carries that
\* request's own message id, for any number of concurrent requests hitting the same
\* cache entry.
C18_HitCarriesOwnId ==
    op.name = "QueryWriteHit" => resp.Id = op.id

\* the last operation was a query the handler passed to iterativeResolve
Resolved == op.name = "ServeDNS" /\ op.resolved

\* what iterativeResolve returned for the last query
LastResolution ==
    iterativeResolve(WorldOf(upstream), RootServers,
                     Fqdn(op.req.Question[1].Name), op.req.Question[1].Qtype)

\* the first reply the root servers gave to the last query
LastFirstReply ==
    FirstReply(WorldOf(upstream), RootServers, 1,
               Fqdn(op.req.Question[1].Name), op.req.Question[1].Qtype)

\* the worlds in which no reply within maxDepth iterations is final for q.e. A
EndlessWorlds == {"referralloop", "cnameloop", "chain16"}

\* the last query asked for q.e. A, the question the worlds know
AskedQE ==
    /\ Fqdn(op.req.Question[1].Name) = NameQE
    /\ op.req.Question[1].Qtype = TypeA

C26_NoDataReplyReturned ==
    (/\ Resolved
     /\ ~LastFirstReply.err
     /\ LastFirstReply.msg.Rcode # RcodeNameError
     /\ LastFirstReply.msg.Answer = <<>>
     /\ WithType(LastFirstReply.msg.Ns, TypeNS) = <<>>)
    => (/\ ~LastResolution.nil
        /\ LastResolution.msg = LastFirstReply.msg
        /\ resp = [LastFirstReply.msg EXCEPT !.Id = op.req.Id])


----------------------------------------------------------------------------
(* The caches being built for a configured --cache-size *)

\* the largest --cache-size tried
MaxCapacity == 120

\* lru.New(size) of hashicorp/golang-lru/v2: "must provide a positive size" for
\* size <= 0
lruNew(size) == [err |-> size <= 0, size |-> IF size <= 0 THEN 0 ELSE size]

\* a *RRCaches that was not built
NoCaches == [err |-> TRUE, pos |-> 0, neg |-> 0]

\* NewRRCaches(capacity): [err, pos, neg], the sizes of the two LRUs
NewRRCaches(capacity) ==
    IF lruNew(capacity).err THEN NoCaches
    ELSE IF lruNew(capacity \div 10).err THEN NoCaches
    ELSE [err |-> FALSE, pos |-> lruNew(capacity).size, neg |-> lruNew(capacity \div 10).size]

InitNew ==
    /\ op = NoOp
    /\ pos = <<>>
    /\ neg = <<>>
    /\ now = 0
    /\ putlog = EmptyMap
    /\ store = EmptyMap
    /\ resp = NoMsg
    /\ tasks = <<>>
    /\ zdir = <<>>
    /\ upstream = NoUpstream
    /\ mu = Unlocked
    /\ zfile = NoFile
    /\ zres = NoResult

\* main: cache.NewRRCaches[*dns.Msg](*cacheSize)
RunNewRRCaches(capacity) ==
    /\ op.name = "none"
    /\ op' = [name |-> "NewRRCaches", capacity |-> capacity, res |-> NewRRCaches(capacity)]
    /\ UNCHANGED <<pos, neg, now, putlog, store, resp, tasks, zfile, zres, zdir, upstream, mu>>

NextNew == \E capacity \in 1..MaxCapacity : RunNewRRCaches(capacity)

SpecNew == InitNew /\ [][NextNew]_vars

\* C27: NewRRCaches(N) succeeds for every N >= 1 and gives the positive cache the
\* capacity N and the negative cache the capacity max(1, N/10), with integer
\* division.
C27_CachesBuiltForEverySize ==
    op.name = "NewRRCaches" =>
        /\ ~op.res.err
        /\ op.res.pos = op.capacity
        /\ op.res.neg = IF op.capacity \div 10 < 1 THEN 1 ELSE op.capacity \div 10

----------------------------------------------------------------------------
(* watch.WatchDir with a clock: every event starts its own timer *)

\* the 100 ms of time.AfterFunc, in clock ticks of 50 ms
debounceTicks == 2

\* what an editor saving d.c.dns leaves in it
WatchContents == { Garbage, Json(ReloadZone(ZoneD, 2)) }

\* the timer time.AfterFunc started for an event that arrived at instant at
Timer(ev, at) == [pc |-> "timer", ev |-> ev, at |-> at]

InitWatch ==
    /\ store = LoadZonesDir(<<Json(ReloadZone(ZoneD, 1))>>).out
    /\ zfile = Json(ReloadZone(ZoneD, 1))
    /\ tasks = <<>>
    /\ now = 0
    /\ pos = <<>>
    /\ neg = <<>>
    /\ resp = NoMsg
    /\ op = NoOp
    /\ putlog = EmptyMap
    /\ zres = NoResult
    /\ zdir = <<>>
    /\ upstream = NoUpstream
    /\ mu = Unlocked

\* case ev := <-w.Events for a Write or Create of d.c.dns: time.AfterFunc is called
WatchWrite(content) ==
    /\ Len(tasks) < MaxEvents
    /\ zfile' = content
    /\ tasks' = Append(tasks, Timer("write", now))
    /\ op' = [name |-> "WatchWrite"]
    /\ UNCHANGED <<store, pos, neg, now, resp, putlog, zres, zdir, upstream, mu>>

\* case ev := <-w.Events for a Remove or Rename of d.c.dns
WatchRemove ==
    /\ Len(tasks) < MaxEvents
    /\ zfile' = Missing
    /\ tasks' = Append(tasks, Timer("remove", now))
    /\ op' = [name |-> "WatchRemove"]
    /\ UNCHANGED <<store, pos, neg, now, resp, putlog, zres, zdir, upstream, mu>>

\* 50 ms pass
WatchTick ==
    /\ now < MaxTime + debounceTicks
    /\ now' = now + 1
    /\ op' = [name |-> "WatchTick"]
    /\ UNCHANGED <<store, pos, neg, resp, putlog, tasks, zfile, zres, zdir, upstream, mu>>

\* the timer of the i-th event fires and its function runs: OnZoneRemoved for a Remove
\* or Rename, OnZoneUpdated otherwise, on the file as it is now
WatchFire(i, order) ==
    LET f == readZonePath(zfile)
        x == IndexOfContent[zfile]
        old == GetZoneForNameIn(store, x.idx.ZoneFQDN, order).zi
        zone == IF tasks[i].ev = "remove" THEN WatchedName \o <<".">> ELSE x.idx.ZoneFQDN
    IN /\ tasks[i].pc = "timer"
       /\ now >= tasks[i].at + debounceTicks
       /\ tasks' = [tasks EXCEPT ![i].pc = "done"]
       /\ op' = [name |-> IF tasks[i].ev = "remove" THEN "OnZoneRemoved" ELSE "OnZoneUpdated",
                 timer |-> i]
       /\ IF tasks[i].ev = "remove"
          THEN /\ store' = RemoveZone(store, zone)
               /\ pos' = InvalidateZone(pos, zone)
               /\ neg' = InvalidateZone(neg, zone)
          ELSE IF f.err \/ x.err
          THEN UNCHANGED <<store, pos, neg>>
          ELSE IF ~IsNil(old) /\ x.idx.Serial <= old.Serial
          THEN UNCHANGED <<store, pos, neg>>
          ELSE /\ store' = SwapZone(store, x.idx)
               /\ pos' = InvalidateZone(pos, zone)
               /\ neg' = InvalidateZone(neg, zone)
       /\ UNCHANGED <<now, resp, putlog, zfile, zres, zdir, upstream, mu>>

NextWatch ==
    \/ \E content \in WatchContents : WatchWrite(content)
    \/ WatchRemove
    \/ WatchTick
    \/ \E i \in 1..Len(tasks), order \in Orders(DOMAIN store) : WatchFire(i, order)

SpecWatch == InitWatch /\ [][NextWatch]_vars

\* C28: the events of a burst for the same .dns file, arriving within the 100 ms
\* debounce window, result in one OnZoneUpdated or OnZoneRemoved call: of two events
\* less than 100 ms apart, at most one has its callback run.
C28_BurstIsOneReload ==
    \A i, j \in 1..Len(tasks) :
        (i < j /\ tasks[j].at < tasks[i].at + debounceTicks)
            => ~(tasks[i].pc = "done" /\ tasks[j].pc = "done")

----------------------------------------------------------------------------
(* The cache operations as goroutines taking posMu and negMu *)

LockCalls == {"GetPositive", "PutPositive", "GetNegative", "PutNegative", "InvalidateZone"}

LockName == Name(<<"w", "d", "c">>)

InitLock ==
    /\ mu = Unlocked
    /\ tasks = <<>>
    /\ pos = <<>>
    /\ neg = <<>>
    /\ now = 0
    /\ store = EmptyMap
    /\ resp = NoMsg
    /\ op = NoOp
    /\ putlog = EmptyMap
    /\ zfile = NoFile
    /\ zres = NoResult
    /\ zdir = <<>>
    /\ upstream = NoUpstream

\* a goroutine calls a cache operation and reaches its first Lock()
CallCache(call) ==
    /\ Len(tasks) < MaxEvents
    /\ tasks' = Append(tasks, [pc |-> IF call \in {"GetNegative", "PutNegative"}
                                      THEN "lockneg" ELSE "lockpos",
                               call |-> call])
    /\ op' = [name |-> "CallCache"]
    /\ UNCHANGED <<store, pos, neg, now, resp, putlog, zfile, zres, zdir, upstream, mu>>

\* c.posMu.Lock() returns
LockPos(i) ==
    /\ tasks[i].pc = "lockpos"
    /\ mu.pos = 0
    /\ mu' = [mu EXCEPT !.pos = i]
    /\ tasks' = [tasks EXCEPT ![i].pc = "pos"]
    /\ op' = [name |-> "LockPos"]
    /\ UNCHANGED <<store, pos, neg, now, resp, putlog, zfile, zres, zdir, upstream>>

\* the statements under posMu, leaving the mutex held when InvalidateZone goes on to
\* the negative cache
RunPosKeepsLock(i) ==
    /\ tasks[i].pc = "pos"
    /\ pos' = CASE tasks[i].call = "GetPositive" -> GetPositive(pos, LockName, TypeA, now).cache
                [] tasks[i].call = "PutPositive" -> PutPositive(pos, LockName, TypeA, "m1", 1, now)
                [] OTHER -> InvalidateZone(pos, ZoneD)
    /\ mu' = IF tasks[i].call = "InvalidateZone" THEN mu ELSE [mu EXCEPT !.pos = 0]
    /\ tasks' = [tasks EXCEPT ![i].pc = IF tasks[i].call = "InvalidateZone"
                                        THEN "lockneg" ELSE "done"]
    /\ op' = [name |-> "RunPos"]
    /\ UNCHANGED <<store, neg, now, resp, putlog, zfile, zres, zdir, upstream>>

\* the statements under posMu and c.posMu.Unlock(), deferred or explicit
RunPos(i) ==
    /\ tasks[i].pc = "pos"
    /\ pos' = CASE tasks[i].call = "GetPositive" -> GetPositive(pos, LockName, TypeA, now).cache
                [] tasks[i].call = "PutPositive" -> PutPositive(pos, LockName, TypeA, "m1", 1, now)
                [] OTHER -> InvalidateZone(pos, ZoneD)
    /\ mu' = [mu EXCEPT !.pos = 0]
    /\ tasks' = [tasks EXCEPT ![i].pc = IF tasks[i].call = "InvalidateZone"
                                        THEN "lockneg" ELSE "done"]
    /\ op' = [name |-> "RunPos"]
    /\ UNCHANGED <<store, neg, now, resp, putlog, zfile, zres, zdir, upstream>>

\* c.negMu.Lock() returns
LockNeg(i) ==
    /\ tasks[i].pc = "lockneg"
    /\ mu.neg = 0
    /\ mu' = [mu EXCEPT !.neg = i]
    /\ tasks' = [tasks EXCEPT ![i].pc = "neg"]
    /\ op' = [name |-> "LockNeg"]
    /\ UNCHANGED <<store, pos, neg, now, resp, putlog, zfile, zres, zdir, upstream>>

\* the statements under negMu and c.negMu.Unlock(), deferred or explicit
RunNeg(i) ==
    /\ tasks[i].pc = "neg"
    /\ neg' = CASE tasks[i].call = "GetNegative" ->
                      GetNegative(neg, LockName, TypeA, RcodeNameError, now).cache
                [] tasks[i].call = "PutNegative" ->
                      PutNegative(neg, LockName, TypeA, RcodeNameError, 1, now)
                [] OTHER -> InvalidateZone(neg, ZoneD)
    /\ mu' = [mu EXCEPT !.neg = 0]
    /\ tasks' = [tasks EXCEPT ![i].pc = "done"]
    /\ op' = [name |-> "RunNeg"]
    /\ UNCHANGED <<store, pos, now, resp, putlog, zfile, zres, zdir, upstream>>

NextLock ==
    \/ \E call \in LockCalls : CallCache(call)
    \/ \E i \in 1..Len(tasks) : LockPos(i)
    \/ \E i \in 1..Len(tasks) : RunPos(i)
    \/ \E i \in 1..Len(tasks) : LockNeg(i)
    \/ \E i \in 1..Len(tasks) : RunNeg(i)

SpecLock == InitLock /\ [][NextLock]_vars

\* goroutine i has a step to take
CanStep(i) ==
    \/ tasks[i].pc \in {"pos", "neg"}
    \/ tasks[i].pc = "lockpos" /\ mu.pos = 0
    \/ tasks[i].pc = "lockneg" /\ mu.neg = 0

\* C29: no goroutine holds posMu and negMu at the same time; a cache operation that
\* has returned holds neither; and the operations never deadlock: while one of them
\* has not returned, one of them can take a step.
C29_MutexesNeverNested ==
    /\ \A i \in 1..Len(tasks) : ~(mu.pos = i /\ mu.neg = i)
    /\ \A i \in 1..Len(tasks) : tasks[i].pc = "done" => (mu.pos # i /\ mu.neg # i)
    /\ (\E i \in 1..Len(tasks) : tasks[i].pc # "done")
          => \E i \in 1..Len(tasks) : CanStep(i)

\* InvalidateZone holds negMu while a Get or Put holds posMu and another goroutine
\* waits for posMu
C29_Witness ==
    /\ mu.pos # 0
    /\ mu.neg # 0
    /\ tasks[mu.neg].call = "InvalidateZone"
    /\ tasks[mu.pos].call # "InvalidateZone"
    /\ \E i \in 1..Len(tasks) : tasks[i].pc = "lockpos"

(* OnZoneUpdated for a zone that is not installed *)

\* C30: a zone file that parses and validates, for a zone whose FQDN is not a key of
\* the store, is installed by OnZoneUpdated whatever the serials of the installed
\* zones are, a parent zone whose FQDN is a suffix of the new zone's FQDN included.
C30_NewZoneInstalledWhateverOtherSerials ==
    [][ (/\ op'.name = "OnZoneUpdated"
         /\ ~ReloadFails(op'.content)
         /\ NewIndex(op'.content).ZoneFQDN \notin DOMAIN store)
        => LET new == NewIndex(op'.content)
           IN /\ new.ZoneFQDN \in DOMAIN store'
              /\ store'[new.ZoneFQDN] = new ]_vars

(* The zone a name is attributed to, under SpecQuery *)

\* name is zone itself or ends with a dot followed by zone
AtLabelBoundary(name, zone) == name = zone \/ HasSuffix(name, <<".">> \o zone)

\* C31: GetZoneForName selects a zone for a name only on a whole-label boundary, the
\* name being the zone's FQDN or ending with "." and the zone's FQDN; a query for a
\* name that is at no label boundary of an installed zone, such as xd.c. with zone
\* d.c. installed, is not answered from a zone: its reply carries no record.
C31_ZoneOnLabelBoundary ==
    (op.name = "ServeDNS" /\ Len(op.req.Question) > 0)
    => /\ \A order \in Orders(DOMAIN store) :
             LET got == GetZoneForNameIn(store, Fqdn(op.req.Question[1].Name), order)
             IN ~IsNil(got.zi) => AtLabelBoundary(LastQName, got.zone)
       /\ (\A z \in DOMAIN store : ~AtLabelBoundary(LastQName, z))
             => (resp.Answer = <<>> /\ resp.Ns = <<>> /\ resp.Extra = <<>>)

(* The order in which the callbacks of the watcher take effect, under SpecWatch *)

\* C32: when a Remove or Rename event for d.c.dns is followed by a write that leaves
\* a valid zone file, the last event for the file, then once the function of every
\* timer has run the store holds the zone: the removal does not land after the
\* install.
C32_RemovalNeverAfterLaterInstall ==
    (/\ Len(tasks) > 1
     /\ \A i \in 1..Len(tasks) : tasks[i].pc = "done"
     /\ tasks[Len(tasks)].ev = "write"
     /\ \E i \in 1..(Len(tasks) - 1) : tasks[i].ev = "remove"
     /\ ~readZonePath(zfile).err
     /\ ~IndexOfContent[zfile].err)
    => /\ IndexOfContent[zfile].idx.ZoneFQDN \in DOMAIN store
       /\ store[IndexOfContent[zfile].idx.ZoneFQDN] = IndexOfContent[zfile].idx

====
